---- MODULE Spec2Model ----
(***************************************************************************)
(* A model of the user directory of src/7.py: the documents of the         *)
(* "users" index, and the request handlers that read and write them.  Each *)
(* handler runs in a request slot; every call it makes to the store        *)
(* (es.exists, es.get, es.index, es.update, es.delete, es.search) is one   *)
(* atomic step, and calls of different requests interleave freely.         *)
(*                                                                         *)
(* store is the index; store0 is the index as the behaviour found it.  For *)
(* request slot p: pc[p] is the place of its handler, req[p] the request,  *)
(* local[p] the handler's variables, result[p] the response, calls[p] the  *)
(* store calls the handler has made, pre[p] the index when the request     *)
(* entered the handler and post[p] the index when it responded.            *)
(***************************************************************************)
EXTENDS Integers, Sequences, FiniteSets, TLC

VARIABLES store, store0, pc, req, local, result, calls, pre, post

vars == <<store, store0, pc, req, local, result, calls, pre, post>>

(***************************************************************************)
(* Bounds.                                                                 *)
(***************************************************************************)
NumIds == 3
NumProcs == 2
MaxFollowLen == 2

Ids == 1..NumIds
Procs == 1..NumProcs

Statuses == {"single", "married"}

RECURSIVE SeqsUpTo(_, _)
SeqsUpTo(S, n) ==
  IF n = 0 THEN {<<>>}
  ELSE LET shorter == SeqsUpTo(S, n - 1)
       IN  shorter \cup {Append(s, x) : s \in {t \in shorter : Len(t) = n - 1}, x \in S}

\* The following lists a request body may carry: List[int], unvalidated.
FollowInputs == SeqsUpTo(Ids, MaxFollowLen)

(***************************************************************************)
(* Sequences as Python lists.                                              *)
(***************************************************************************)
Range(s) == {s[i] : i \in 1..Len(s)}

\* x in list
Contains(s, x) == \E i \in 1..Len(s) : s[i] = x

\* list.count(x)
Count(s, x) == Cardinality({i \in 1..Len(s) : s[i] = x})

(***************************************************************************)
(* Documents of the index.  A document that is not in the index is NoDoc.  *)
(***************************************************************************)
NoDoc ==
  [exists |-> FALSE, following |-> <<>>, status |-> "single", hobbies |-> <<>>,
   hasX |-> FALSE, x |-> 0, hasY |-> FALSE, y |-> 0]

\* body = user.dict(exclude={"id"}); the User model has no hobbies, x or y.
CreateBody(following, status) ==
  [exists |-> TRUE, following |-> following, status |-> status, hobbies |-> <<>>,
   hasX |-> FALSE, x |-> 0, hasY |-> FALSE, y |-> 0]

\* es.exists(index=INDEX_NAME, id=str(id))
Exists(id) == store[id].exists

(***************************************************************************)
(* Responses.                                                              *)
(***************************************************************************)
NoResult == [status |-> 0, detail |-> "", following |-> <<>>, ids |-> <<>>]

HTTPException(status_code, detail) ==
  [status |-> status_code, detail |-> detail, following |-> <<>>, ids |-> <<>>]

\* except NotFoundError: raise HTTPException(status_code=404, detail="User not found")
ExceptNotFoundError == HTTPException(404, "User not found")

\* except Exception as e: raise HTTPException(status_code=500, detail=str(e)).
\* HTTPException is an Exception and not a NotFoundError, so an HTTPException
\* raised inside the try block leaves the handler with status 500; the detail
\* is str(e), kept here as the detail of the exception that was caught.
ExceptException(e) == [e EXCEPT !.status = 500]

Ok(following) == [status |-> 200, detail |-> "", following |-> following, ids |-> <<>>]

NoContent == [status |-> 204, detail |-> "", following |-> <<>>, ids |-> <<>>]

(***************************************************************************)
(* Request slots.                                                          *)
(***************************************************************************)
NoReq ==
  [op |-> "none", id |-> 0, follow_id |-> 0, following |-> <<>>, hasFollowing |-> FALSE,
   status |-> "single", hasStatus |-> FALSE]

\* The handler's variables: following (user_doc["following"]), the place i in
\* it, suggested_ids, the candidates still to visit (todo), the one being
\* visited (sid), suggestions, the ids of the hits of a search in the order
\* the store returned them, matches (the hits with their common_hobbies and
\* distance, sorted), and user_doc where the handler keeps all of it.  fresh
\* tells whether the followers search saw the index as it is.
NoLocal ==
  [following |-> <<>>, i |-> 0, suggested_ids |-> {}, todo |-> {}, sid |-> 0,
   suggestions |-> <<>>, hits |-> <<>>, matches |-> <<>>, user_doc |-> NoDoc,
   fresh |-> TRUE]

Request(op, id, follow_id) == [NoReq EXCEPT !.op = op, !.id = id, !.follow_id = follow_id]

\* A request enters its handler.
Begin(p, r, first) ==
  /\ pc[p] = "idle"
  /\ pc' = [pc EXCEPT ![p] = first]
  /\ req' = [req EXCEPT ![p] = r]
  /\ pre' = [pre EXCEPT ![p] = store]
  /\ UNCHANGED <<store, store0, local, result, calls, post>>

\* The handler of slot p makes the store call named call.
Called(p, call) == calls' = [calls EXCEPT ![p] = Append(@, call)]

\* The handler of slot p returns or raises: the response is r, and the store
\* is as the step leaves it.
Respond(p, r) ==
  /\ pc' = [pc EXCEPT ![p] = "done"]
  /\ result' = [result EXCEPT ![p] = r]
  /\ post' = [post EXCEPT ![p] = store']

Goto(p, label) ==
  /\ pc' = [pc EXCEPT ![p] = label]
  /\ UNCHANGED <<result, post>>

(***************************************************************************)
(* routes/follow.py: add_follow.                                           *)
(***************************************************************************)
StartAddFollow(p) ==
  \E id \in Ids, follow_id \in Ids : Begin(p, Request("add_follow", id, follow_id), "af_exists_id")

\* if not es.exists(id): raise HTTPException(404, "User not found")
AddFollowExistsId(p) ==
  /\ pc[p] = "af_exists_id"
  /\ Called(p, "exists")
  /\ UNCHANGED <<store, req, local, pre, store0>>
  /\ IF Exists(req[p].id)
     THEN Goto(p, "af_exists_follow")
     ELSE Respond(p, ExceptException(HTTPException(404, "User not found")))

\* if not es.exists(follow_id): raise HTTPException(404, "Follow user not found")
\* if id == follow_id: raise HTTPException(400, "Cannot follow self")
AddFollowExistsFollow(p) ==
  /\ pc[p] = "af_exists_follow"
  /\ Called(p, "exists")
  /\ UNCHANGED <<store, req, local, pre, store0>>
  /\ IF ~Exists(req[p].follow_id)
     THEN Respond(p, ExceptException(HTTPException(404, "Follow user not found")))
     ELSE IF req[p].id = req[p].follow_id
     THEN Respond(p, ExceptException(HTTPException(400, "Cannot follow self")))
     ELSE Goto(p, "af_get")

\* if follow_id not in user_doc.get("following", []): user_doc["following"].append(follow_id)
AddFollowing(following, follow_id) ==
  IF Contains(following, follow_id) THEN following ELSE Append(following, follow_id)

\* A faulty variant: es.update stands outside the membership test.
AddFollowGetThenUpdate(p) ==
  /\ pc[p] = "af_get"
  /\ Called(p, "get")
  /\ UNCHANGED <<store, req, pre, store0>>
  /\ IF ~Exists(req[p].id)
     THEN /\ Respond(p, ExceptNotFoundError)
          /\ UNCHANGED local
     ELSE /\ local' = [local EXCEPT ![p].following =
                         AddFollowing(store[req[p].id].following, req[p].follow_id)]
          /\ Goto(p, "af_update")

\* user_doc = es.get(id)["_source"]; the membership test; the return when the
\* target is already followed.
AddFollowGet(p) ==
  /\ pc[p] = "af_get"
  /\ Called(p, "get")
  /\ UNCHANGED <<store, req, pre, store0>>
  /\ IF ~Exists(req[p].id)
     THEN /\ Respond(p, ExceptNotFoundError)
          /\ UNCHANGED local
     ELSE LET following == store[req[p].id].following
          IN  /\ local' = [local EXCEPT ![p].following = AddFollowing(following, req[p].follow_id)]
              /\ IF Contains(following, req[p].follow_id)
                 THEN Respond(p, Ok(following))
                 ELSE Goto(p, "af_update")

\* A faulty variant: the update writes the list to every document.
UpdateFollowingEverywhere(id, following) ==
  [i \in Ids |-> IF store[i].exists THEN [store[i] EXCEPT !.following = following]
                                     ELSE store[i]]

\* es.update(id, body={"doc": {"following": following}}): a partial update,
\* NotFoundError when the document is not in the index.
UpdateFollowing(id, following) == [store EXCEPT ![id].following = following]

\* A faulty variant: the update creates the document it does not find.
AddFollowUpdateUpsert(p) ==
  /\ pc[p] = "af_update"
  /\ Called(p, "update")
  /\ store' = [store EXCEPT ![req[p].id] = CreateBody(local[p].following, "single")]
  /\ Respond(p, Ok(local[p].following))
  /\ UNCHANGED <<req, local, pre, store0>>

\* es.update(...); return {"id": id, "following": user_doc["following"]}
AddFollowUpdate(p) ==
  /\ pc[p] = "af_update"
  /\ Called(p, "update")
  /\ IF ~Exists(req[p].id)
     THEN /\ UNCHANGED store
          /\ Respond(p, ExceptNotFoundError)
     ELSE /\ store' = UpdateFollowing(req[p].id, local[p].following)
          /\ Respond(p, Ok(local[p].following))
  /\ UNCHANGED <<req, local, pre, store0>>

(***************************************************************************)
(* routes/follow.py: remove_follow.                                        *)
(***************************************************************************)
StartRemoveFollow(p) ==
  \E id \in Ids, follow_id \in Ids :
    Begin(p, Request("remove_follow", id, follow_id), "rf_exists_id")

RemoveFollowExistsId(p) ==
  /\ pc[p] = "rf_exists_id"
  /\ Called(p, "exists")
  /\ UNCHANGED <<store, req, local, pre, store0>>
  /\ IF Exists(req[p].id)
     THEN Goto(p, "rf_exists_follow")
     ELSE Respond(p, ExceptException(HTTPException(404, "User not found")))

RemoveFollowExistsFollow(p) ==
  /\ pc[p] = "rf_exists_follow"
  /\ Called(p, "exists")
  /\ UNCHANGED <<store, req, local, pre, store0>>
  /\ IF Exists(req[p].follow_id)
     THEN Goto(p, "rf_get")
     ELSE Respond(p, ExceptException(HTTPException(404, "Follow user not found")))

\* A faulty variant: the update is made only when the filter took an entry
\* out.
RemoveFollowGetUpdatingOnChange(p) ==
  /\ pc[p] = "rf_get"
  /\ Called(p, "get")
  /\ UNCHANGED <<store, req, pre, store0>>
  /\ IF ~Exists(req[p].id)
     THEN /\ Respond(p, ExceptNotFoundError)
          /\ UNCHANGED local
     ELSE /\ local' = [local EXCEPT ![p].following =
                         SelectSeq(store[req[p].id].following,
                                   LAMBDA f : f # req[p].follow_id)]
          /\ IF Contains(store[req[p].id].following, req[p].follow_id)
             THEN Goto(p, "rf_update")
             ELSE Respond(p, Ok(store[req[p].id].following))

\* A faulty variant: following.remove(follow_id), which takes out the first
\* entry that is follow_id and leaves the others.
RemoveFollowingFirst(following, follow_id) ==
  IF ~Contains(following, follow_id) THEN following
  ELSE LET at == CHOOSE k \in 1..Len(following) :
                   following[k] = follow_id /\ \A l \in 1..(k - 1) : following[l] # follow_id
       IN  SubSeq(following, 1, at - 1) \o SubSeq(following, at + 1, Len(following))

\* A faulty variant: the filter drops the last entry of the list.
RemoveFollowingTruncating(following, follow_id) ==
  IF Len(following) = 0 THEN following ELSE SubSeq(following, 1, Len(following) - 1)

\* [f for f in user_doc.get("following", []) if f != follow_id]
RemoveFollowing(following, follow_id) ==
  LET keep(f) == f # follow_id IN SelectSeq(following, keep)

RemoveFollowGet(p) ==
  /\ pc[p] = "rf_get"
  /\ Called(p, "get")
  /\ UNCHANGED <<store, req, pre, store0>>
  /\ IF ~Exists(req[p].id)
     THEN /\ Respond(p, ExceptNotFoundError)
          /\ UNCHANGED local
     ELSE /\ local' = [local EXCEPT ![p].following =
                         RemoveFollowing(store[req[p].id].following, req[p].follow_id)]
          /\ Goto(p, "rf_update")

RemoveFollowUpdate(p) ==
  /\ pc[p] = "rf_update"
  /\ Called(p, "update")
  /\ IF ~Exists(req[p].id)
     THEN /\ UNCHANGED store
          /\ Respond(p, ExceptNotFoundError)
     ELSE /\ store' = UpdateFollowing(req[p].id, local[p].following)
          /\ Respond(p, Ok(local[p].following))
  /\ UNCHANGED <<req, local, pre, store0>>

(***************************************************************************)
(* routes/follow.py when the store does not answer the update.  es.update  *)
(* raises ConnectionError when the request did not reach the store, and    *)
(* ConnectionTimeout when no answer came in time: the store may have       *)
(* applied a request it received, or not.  Neither is a NotFoundError, so  *)
(* the except Exception clause answers.                                    *)
(***************************************************************************)
UpdateErrors == {"ConnectionError", "ConnectionTimeout"}

\* The index after an es.update that raised error: as it was, and for a
\* timeout also as the update makes it.
FailedUpdate(error, id, following) ==
  {store} \cup IF error = "ConnectionTimeout" /\ Exists(id)
               THEN {UpdateFollowing(id, following)}
               ELSE {}

\* A faulty variant: the exception of es.update is swallowed and the handler
\* returns the list it meant to store.
FailedResponseSwallowed(error, following) == Ok(following)

\* except Exception as e: raise HTTPException(status_code=500, detail=str(e))
FailedResponse(error, following) == ExceptException(HTTPException(0, error))

AddFollowUpdateFails(p) ==
  /\ pc[p] = "af_update"
  /\ \E error \in UpdateErrors :
       /\ Called(p, error)
       /\ store' \in FailedUpdate(error, req[p].id, local[p].following)
       /\ Respond(p, FailedResponse(error, local[p].following))
  /\ UNCHANGED <<req, local, pre, store0>>

RemoveFollowUpdateFails(p) ==
  /\ pc[p] = "rf_update"
  /\ \E error \in UpdateErrors :
       /\ Called(p, error)
       /\ store' \in FailedUpdate(error, req[p].id, local[p].following)
       /\ Respond(p, FailedResponse(error, local[p].following))
  /\ UNCHANGED <<req, local, pre, store0>>

\* add_follow or remove_follow, request r, run from its first line to its
\* last on the index with no other request in between: the response and the
\* index it leaves.
RunAlone(index, r) ==
  IF ~index[r.id].exists
  THEN [result |-> ExceptException(HTTPException(404, "User not found")), index |-> index]
  ELSE IF ~index[r.follow_id].exists
  THEN [result |-> ExceptException(HTTPException(404, "Follow user not found")), index |-> index]
  ELSE IF r.op = "add_follow" /\ r.id = r.follow_id
  THEN [result |-> ExceptException(HTTPException(400, "Cannot follow self")), index |-> index]
  ELSE LET following == IF r.op = "add_follow"
                        THEN AddFollowing(index[r.id].following, r.follow_id)
                        ELSE RemoveFollowing(index[r.id].following, r.follow_id)
       IN  [result |-> Ok(following), index |-> [index EXCEPT ![r.id].following = following]]

(***************************************************************************)
(* routes/create_user.py: create_user.  The handler has no try block: its  *)
(* HTTPExceptions reach the client as raised.                              *)
(***************************************************************************)
StartCreateUser(p) ==
  \E id \in Ids, following \in FollowInputs :
    Begin(p, [Request("create_user", id, 0) EXCEPT !.following = following, !.hasFollowing = TRUE,
                                                   !.status = "single", !.hasStatus = TRUE],
          "cu_exists")

\* A faulty variant: the existence check is skipped.
CreateUserExistsSkipped(p) ==
  /\ pc[p] = "cu_exists"
  /\ Called(p, "exists")
  /\ UNCHANGED <<store, req, local, pre, store0>>
  /\ Goto(p, "cu_index")

\* if es.exists(id): raise HTTPException(400, "User with this ID already exists")
CreateUserExists(p) ==
  /\ pc[p] = "cu_exists"
  /\ Called(p, "exists")
  /\ UNCHANGED <<store, req, local, pre, store0>>
  /\ IF Exists(req[p].id)
     THEN Respond(p, HTTPException(400, "User with this ID already exists"))
     ELSE Goto(p, "cu_index")

\* es.index(id, body): the document is written whether or not one is there;
\* the result is "created" or "updated".
Index(id, body) == [store EXCEPT ![id] = body]

\* user.location as the request carries it: a Location, a dict of lon and lat.
RequestLocation == [type |-> "dict", lon |-> 0, lat |-> 60]

\* body["location"] = [user.location.lon, user.location.lat]
LocationList(location) == [type |-> "list", lon |-> location.lon, lat |-> location.lat]

\* User(id=..., following=..., location=...): the model takes a dict (or a
\* Location) for its location field and raises ValidationError for a list.
\* Outside a try block the error leaves the handler uncaught, and the
\* client gets 500 Internal Server Error.
UserModel(following, location) ==
  IF location.type = "dict" THEN Ok(following) ELSE HTTPException(500, "Internal Server Error")

\* res = es.index(...); if res["result"] != "created": raise HTTPException(500, ...)
\* return User(id=user.id, **body), where body["location"] is the list
CreateUserIndex(p) ==
  /\ pc[p] = "cu_index"
  /\ Called(p, "index")
  /\ store' = Index(req[p].id, CreateBody(req[p].following, req[p].status))
  /\ IF Exists(req[p].id)
     THEN Respond(p, HTTPException(500, "Failed to create user"))
     ELSE Respond(p, UserModel(req[p].following, LocationList(RequestLocation)))
  /\ UNCHANGED <<req, local, pre, store0>>

(***************************************************************************)
(* main.py: create_user of the single-file layout.  The body is indexed    *)
(* with its location as the request gave it, and the response is built     *)
(* from that body.                                                         *)
(***************************************************************************)
StartMainCreateUser(p) ==
  \E id \in Ids, following \in FollowInputs :
    Begin(p, [Request("main_create_user", id, 0) EXCEPT !.following = following,
                                                        !.hasFollowing = TRUE,
                                                        !.status = "single", !.hasStatus = TRUE],
          "mc_exists")

\* if es.exists(id): raise HTTPException(400, "User with this ID already exists")
MainCreateUserExists(p) ==
  /\ pc[p] = "mc_exists"
  /\ Called(p, "exists")
  /\ UNCHANGED <<store, req, local, pre, store0>>
  /\ IF Exists(req[p].id)
     THEN Respond(p, HTTPException(400, "User with this ID already exists"))
     ELSE Goto(p, "mc_index")

\* res = es.index(...); if res["result"] != "created": raise HTTPException(500, ...)
\* return UserOut(id=user.id, **body)
MainCreateUserIndex(p) ==
  /\ pc[p] = "mc_index"
  /\ Called(p, "index")
  /\ store' = Index(req[p].id, CreateBody(req[p].following, req[p].status))
  /\ IF Exists(req[p].id)
     THEN Respond(p, HTTPException(500, "Failed to create user"))
     ELSE Respond(p, UserModel(req[p].following, RequestLocation))
  /\ UNCHANGED <<req, local, pre, store0>>

(***************************************************************************)
(* routes/update_user.py: update_user.                                     *)
(***************************************************************************)
\* A UserUpdate body with no field set, with following set, or with status set.
UpdateInputs ==
  {NoReq} \cup {[NoReq EXCEPT !.following = f, !.hasFollowing = TRUE] : f \in FollowInputs}
          \cup {[NoReq EXCEPT !.status = s, !.hasStatus = TRUE] : s \in Statuses}

StartUpdateUser(p) ==
  \E id \in Ids, r \in UpdateInputs :
    Begin(p, [r EXCEPT !.op = "update_user", !.id = id], "uu_exists")

\* update_doc = {k: v for k, v in user_update.dict().items() if v is not None}
UpdateDocEmpty(r) == ~r.hasFollowing /\ ~r.hasStatus

UpdateUserExists(p) ==
  /\ pc[p] = "uu_exists"
  /\ Called(p, "exists")
  /\ UNCHANGED <<store, req, local, pre, store0>>
  /\ IF ~Exists(req[p].id)
     THEN Respond(p, ExceptException(HTTPException(404, "User not found")))
     ELSE IF UpdateDocEmpty(req[p])
     THEN Respond(p, ExceptException(HTTPException(400, "No fields provided for update")))
     ELSE Goto(p, "uu_update")

\* A faulty variant: the update replaces the document, and a list the
\* request does not carry is left empty.
PatchedReplacing(doc, r) ==
  [doc EXCEPT !.following = IF r.hasFollowing THEN r.following ELSE <<>>,
              !.status = IF r.hasStatus THEN r.status ELSE @]

\* es.update(id, body={"doc": update_doc}): the fields of update_doc replace
\* those of the stored document, the others stay.
Patched(doc, r) ==
  [doc EXCEPT !.following = IF r.hasFollowing THEN r.following ELSE @,
              !.status = IF r.hasStatus THEN r.status ELSE @]

\* res = es.update(...); if res["result"] != "updated": raise HTTPException(500, ...)
\* An update that changes nothing has the result "noop".
UpdateUserUpdate(p) ==
  /\ pc[p] = "uu_update"
  /\ Called(p, "update")
  /\ IF ~Exists(req[p].id)
     THEN /\ UNCHANGED store
          /\ Respond(p, ExceptNotFoundError)
     ELSE LET doc == Patched(store[req[p].id], req[p])
          IN  /\ store' = [store EXCEPT ![req[p].id] = doc]
              /\ IF doc = store[req[p].id]
                 THEN Respond(p, ExceptException(HTTPException(500, "Failed to update user")))
                 ELSE Goto(p, "uu_get")
  /\ UNCHANGED <<req, local, pre, store0>>

\* updated_doc = es.get(id); return User(id=id, **source)
UpdateUserGet(p) ==
  /\ pc[p] = "uu_get"
  /\ Called(p, "get")
  /\ UNCHANGED <<store, req, local, pre, store0>>
  /\ IF ~Exists(req[p].id)
     THEN Respond(p, ExceptNotFoundError)
     ELSE Respond(p, Ok(store[req[p].id].following))

(***************************************************************************)
(* routes/delete_user.py and routes/delete_all.py.                         *)
(***************************************************************************)
StartDeleteUser(p) == \E id \in Ids : Begin(p, Request("delete_user", id, 0), "du_exists")

DeleteUserExists(p) ==
  /\ pc[p] = "du_exists"
  /\ Called(p, "exists")
  /\ UNCHANGED <<store, req, local, pre, store0>>
  /\ IF Exists(req[p].id)
     THEN Goto(p, "du_delete")
     ELSE Respond(p, ExceptException(HTTPException(404, "User not found")))

\* A faulty variant: the delete also takes the id out of every following list.
DeleteUserDeleteCascading(p) ==
  /\ pc[p] = "du_delete"
  /\ Called(p, "delete")
  /\ IF ~Exists(req[p].id)
     THEN /\ UNCHANGED store
          /\ Respond(p, ExceptNotFoundError)
     ELSE /\ store' = [i \in Ids |->
                        IF i = req[p].id THEN NoDoc
                        ELSE [store[i] EXCEPT !.following = RemoveFollowing(@, req[p].id)]]
          /\ Respond(p, NoContent)
  /\ UNCHANGED <<req, local, pre, store0>>

\* es.delete(id): NotFoundError when the document is not in the index.
DeleteUserDelete(p) ==
  /\ pc[p] = "du_delete"
  /\ Called(p, "delete")
  /\ IF ~Exists(req[p].id)
     THEN /\ UNCHANGED store
          /\ Respond(p, ExceptNotFoundError)
     ELSE /\ store' = [store EXCEPT ![req[p].id] = NoDoc]
          /\ Respond(p, NoContent)
  /\ UNCHANGED <<req, local, pre, store0>>

\* es.delete_by_query(body={"query": {"match_all": {}}})
DeleteAllUsers(p) ==
  /\ pc[p] = "idle"
  /\ req' = [req EXCEPT ![p] = Request("delete_all_users", 0, 0)]
  /\ pre' = [pre EXCEPT ![p] = store]
  /\ Called(p, "delete_by_query")
  /\ store' = [i \in Ids |-> NoDoc]
  /\ Respond(p, NoContent)
  /\ UNCHANGED <<local, store0>>

(***************************************************************************)
(* routes/suggestions.py: get_user_suggestions.                            *)
(***************************************************************************)
\* return suggestions
Suggested(ids) == [status |-> 200, detail |-> "", following |-> <<>>, ids |-> ids]

StartSuggestions(p) ==
  \E id \in Ids : Begin(p, Request("get_user_suggestions", id, 0), "sg_exists")

SuggestionsExists(p) ==
  /\ pc[p] = "sg_exists"
  /\ Called(p, "exists")
  /\ UNCHANGED <<store, req, local, pre, store0>>
  /\ IF Exists(req[p].id)
     THEN Goto(p, "sg_get")
     ELSE Respond(p, ExceptException(HTTPException(404, "User not found")))

\* A faulty variant: the requesting user is not discarded.
DiscardedWithoutSelf(suggested_ids, id, following) == suggested_ids \ Range(following)

\* suggested_ids.discard(id); for fid in following: suggested_ids.discard(fid)
Discarded(suggested_ids, id, following) == (suggested_ids \ {id}) \ Range(following)

\* The first loop moves on from place i of following with suggested_ids
\* collected so far: to the next followed id, or past the loop, where the
\* discards are made and the second loop starts (and ends at once when no
\* candidate is left).
SuggestionsNextFollowed(p, i, suggested_ids) ==
  IF i < Len(local[p].following)
  THEN /\ local' = [local EXCEPT ![p].i = i + 1, ![p].suggested_ids = suggested_ids]
       /\ Goto(p, "sg_followed_exists")
  ELSE LET todo == Discarded(suggested_ids, req[p].id, local[p].following)
       IN  /\ local' = [local EXCEPT ![p].i = i + 1, ![p].suggested_ids = todo, ![p].todo = todo]
           /\ IF todo = {} THEN Respond(p, Suggested(<<>>)) ELSE Goto(p, "sg_candidate_exists")

\* A faulty variant: the traversal starts from the requester too.
SuggestionsGetWithSelf(p) ==
  /\ pc[p] = "sg_get"
  /\ Called(p, "get")
  /\ UNCHANGED <<store, req, pre, store0>>
  /\ IF ~Exists(req[p].id)
     THEN /\ Respond(p, ExceptNotFoundError)
          /\ UNCHANGED local
     ELSE /\ local' = [local EXCEPT ![p].following = <<req[p].id>> \o store[req[p].id].following,
                                    ![p].i = 1]
          /\ Goto(p, "sg_followed_exists")

\* user_doc = es.get(id)["_source"]; following = user_doc.get("following", [])
SuggestionsGet(p) ==
  /\ pc[p] = "sg_get"
  /\ Called(p, "get")
  /\ UNCHANGED <<store, req, pre, store0>>
  /\ IF ~Exists(req[p].id)
     THEN /\ Respond(p, ExceptNotFoundError)
          /\ UNCHANGED local
     ELSE LET following == store[req[p].id].following
          IN  IF Len(following) = 0
              THEN /\ local' = [local EXCEPT ![p].following = following]
                   /\ Respond(p, Suggested(<<>>))
              ELSE /\ local' = [local EXCEPT ![p].following = following, ![p].i = 1]
                   /\ Goto(p, "sg_followed_exists")

\* for followed_id in following: if es.exists(followed_id):
SuggestionsFollowedExists(p) ==
  /\ pc[p] = "sg_followed_exists"
  /\ Called(p, "exists")
  /\ UNCHANGED <<store, req, pre, store0>>
  /\ IF Exists(local[p].following[local[p].i])
     THEN /\ Goto(p, "sg_followed_get")
          /\ UNCHANGED local
     ELSE SuggestionsNextFollowed(p, local[p].i, local[p].suggested_ids)

\* followed_doc = es.get(followed_id)["_source"]
\* suggested_ids.update(followed_doc.get("following", []))
SuggestionsFollowedGet(p) ==
  /\ pc[p] = "sg_followed_get"
  /\ Called(p, "get")
  /\ UNCHANGED <<store, req, pre, store0>>
  /\ LET followed_id == local[p].following[local[p].i]
     IN  IF ~Exists(followed_id)
         THEN /\ Respond(p, ExceptNotFoundError)
              /\ UNCHANGED local
         ELSE SuggestionsNextFollowed(p, local[p].i,
                local[p].suggested_ids \cup Range(store[followed_id].following))

\* for sid in suggested_ids: if es.exists(sid):    (a set is iterated in an
\* order the handler does not choose)
SuggestionsCandidateExists(p) ==
  /\ pc[p] = "sg_candidate_exists"
  /\ Called(p, "exists")
  /\ UNCHANGED <<store, req, pre, store0>>
  /\ \E sid \in local[p].todo :
       IF Exists(sid)
       THEN /\ local' = [local EXCEPT ![p].sid = sid]
            /\ Goto(p, "sg_candidate_get")
       ELSE /\ local' = [local EXCEPT ![p].todo = @ \ {sid}]
            /\ IF local[p].todo = {sid}
               THEN Respond(p, Suggested(local[p].suggestions))
               ELSE Goto(p, "sg_candidate_exists")

\* The places at which the lists of the profiles that following names hold
\* sid: the ways from the requester to sid.
WaysTo(following, sid) ==
  {w \in (1..Len(following)) \X (1..(MaxFollowLen + NumIds)) :
     /\ store[following[w[1]]].exists
     /\ w[2] <= Len(store[following[w[1]]].following)
     /\ store[following[w[1]]].following[w[2]] = sid}

\* A faulty variant: suggested_ids is a list, and a candidate is appended
\* once for every way that leads to it.
SuggestionsCandidateGetPerWay(p) ==
  /\ pc[p] = "sg_candidate_get"
  /\ Called(p, "get")
  /\ UNCHANGED <<store, req, pre, store0>>
  /\ LET sid == local[p].sid
         ways == Cardinality(WaysTo(local[p].following, sid))
         suggestions == local[p].suggestions \o [k \in 1..ways |-> sid]
     IN  IF ~Exists(sid)
         THEN /\ Respond(p, ExceptNotFoundError)
              /\ UNCHANGED local
         ELSE /\ local' = [local EXCEPT ![p].todo = @ \ {sid}, ![p].suggestions = suggestions]
              /\ IF local[p].todo = {sid}
                 THEN Respond(p, Suggested(suggestions))
                 ELSE Goto(p, "sg_candidate_exists")

\* doc = es.get(sid)["_source"]; suggestions.append(User(id=sid, ...))
SuggestionsCandidateGet(p) ==
  /\ pc[p] = "sg_candidate_get"
  /\ Called(p, "get")
  /\ UNCHANGED <<store, req, pre, store0>>
  /\ LET sid == local[p].sid
         suggestions == Append(local[p].suggestions, sid)
     IN  IF ~Exists(sid)
         THEN /\ Respond(p, ExceptNotFoundError)
              /\ UNCHANGED local
         ELSE /\ local' = [local EXCEPT ![p].todo = @ \ {sid}, ![p].suggestions = suggestions]
              /\ IF local[p].todo = {sid}
                 THEN Respond(p, Suggested(suggestions))
                 ELSE Goto(p, "sg_candidate_exists")

(***************************************************************************)
(* Suggest 2.py: get_user_suggestions for single profiles.  The handler of *)
(* routes/suggestions.py with two more tests: the requester's status after *)
(* the read of its document, and the candidate's status after its fetch.   *)
(***************************************************************************)
StartSingleSuggestions(p) ==
  \E id \in Ids : Begin(p, Request("get_user_suggestions_single", id, 0), "ss_exists")

SingleSuggestionsExists(p) ==
  /\ pc[p] = "ss_exists"
  /\ Called(p, "exists")
  /\ UNCHANGED <<store, req, local, pre, store0>>
  /\ IF Exists(req[p].id)
     THEN Goto(p, "ss_get")
     ELSE Respond(p, ExceptException(HTTPException(404, "User not found")))

\* The first loop moves on from place i of user_following, as in
\* routes/suggestions.py.
SingleSuggestionsNextFollowed(p, i, suggested_ids) ==
  IF i < Len(local[p].following)
  THEN /\ local' = [local EXCEPT ![p].i = i + 1, ![p].suggested_ids = suggested_ids]
       /\ Goto(p, "ss_followed_exists")
  ELSE LET todo == Discarded(suggested_ids, req[p].id, local[p].following)
       IN  /\ local' = [local EXCEPT ![p].i = i + 1, ![p].suggested_ids = todo, ![p].todo = todo]
           /\ IF todo = {} THEN Respond(p, Suggested(<<>>)) ELSE Goto(p, "ss_candidate_exists")

\* A faulty variant: the requester's status is not looked at.
SingleGateOpen(user_doc) == FALSE

\* if user_status != "single": return []
SingleGate(user_doc) == user_doc.status # "single"

\* user_doc = es.get(id)["_source"]; the test of user_status
SingleSuggestionsGet(p) ==
  /\ pc[p] = "ss_get"
  /\ Called(p, "get")
  /\ UNCHANGED <<store, req, pre, store0>>
  /\ IF ~Exists(req[p].id)
     THEN /\ Respond(p, ExceptNotFoundError)
          /\ UNCHANGED local
     ELSE LET user_following == store[req[p].id].following
          IN  IF SingleGate(store[req[p].id]) \/ Len(user_following) = 0
              THEN /\ local' = [local EXCEPT ![p].following = user_following,
                                             ![p].user_doc = store[req[p].id]]
                   /\ Respond(p, Suggested(<<>>))
              ELSE /\ local' = [local EXCEPT ![p].following = user_following, ![p].i = 1,
                                             ![p].user_doc = store[req[p].id]]
                   /\ Goto(p, "ss_followed_exists")

SingleSuggestionsFollowedExists(p) ==
  /\ pc[p] = "ss_followed_exists"
  /\ Called(p, "exists")
  /\ UNCHANGED <<store, req, pre, store0>>
  /\ IF Exists(local[p].following[local[p].i])
     THEN /\ Goto(p, "ss_followed_get")
          /\ UNCHANGED local
     ELSE SingleSuggestionsNextFollowed(p, local[p].i, local[p].suggested_ids)

SingleSuggestionsFollowedGet(p) ==
  /\ pc[p] = "ss_followed_get"
  /\ Called(p, "get")
  /\ UNCHANGED <<store, req, pre, store0>>
  /\ LET followed_id == local[p].following[local[p].i]
     IN  IF ~Exists(followed_id)
         THEN /\ Respond(p, ExceptNotFoundError)
              /\ UNCHANGED local
         ELSE SingleSuggestionsNextFollowed(p, local[p].i,
                local[p].suggested_ids \cup Range(store[followed_id].following))

SingleSuggestionsCandidateExists(p) ==
  /\ pc[p] = "ss_candidate_exists"
  /\ Called(p, "exists")
  /\ UNCHANGED <<store, req, pre, store0>>
  /\ \E sid \in local[p].todo :
       IF Exists(sid)
       THEN /\ local' = [local EXCEPT ![p].sid = sid]
            /\ Goto(p, "ss_candidate_get")
       ELSE /\ local' = [local EXCEPT ![p].todo = @ \ {sid}]
            /\ IF local[p].todo = {sid}
               THEN Respond(p, Suggested(local[p].suggestions))
               ELSE Goto(p, "ss_candidate_exists")

\* A faulty variant: every candidate that was fetched is taken.
CandidateTakenAlways(doc) == TRUE

\* if doc.get("status") == "single":
CandidateTaken(doc) == doc.status = "single"

\* doc = es.get(sid)["_source"]; the test of its status; suggestions.append(...)
SingleSuggestionsCandidateGet(p) ==
  /\ pc[p] = "ss_candidate_get"
  /\ Called(p, "get")
  /\ UNCHANGED <<store, req, pre, store0>>
  /\ LET sid == local[p].sid
     IN  IF ~Exists(sid)
         THEN /\ Respond(p, ExceptNotFoundError)
              /\ UNCHANGED local
         ELSE LET suggestions == IF CandidateTaken(store[sid])
                                 THEN Append(local[p].suggestions, sid)
                                 ELSE local[p].suggestions
              IN  /\ local' = [local EXCEPT ![p].todo = @ \ {sid},
                                             ![p].suggestions = suggestions]
                  /\ IF local[p].todo = {sid}
                     THEN Respond(p, Suggested(suggestions))
                     ELSE Goto(p, "ss_candidate_exists")

(***************************************************************************)
(* Matches 2.py: get_matches and calculate_distance.  Coordinates are      *)
(* whole degrees, multiples of 60, for which sin^2 and cos are rational.   *)
(***************************************************************************)
Abs(n) == IF n < 0 THEN -n ELSE n

\* 4 * sin(radians(d) / 2)**2 for d a multiple of 60 degrees
SinSqHalf4(d) ==
  CASE Abs(d) % 360 = 0 -> 0
    [] Abs(d) % 360 \in {60, 300} -> 1
    [] Abs(d) % 360 \in {120, 240} -> 3
    [] Abs(d) % 360 = 180 -> 4

\* 2 * cos(radians(lat)) for lat one of -60, 0, 60
Cos2(lat) == IF Abs(lat) = 60 THEN 1 ELSE 2

\* A faulty variant: cos(lat1) stands where cos(lat2) should.
HaversineA16Lat1Twice(lat1, lon1, lat2, lon2) ==
  4 * SinSqHalf4(lat2 - lat1) + Cos2(lat1) * Cos2(lat1) * SinSqHalf4(lon2 - lon1)

\* 16 * a, for a = sin(dlat / 2)**2 + cos(lat1) * cos(lat2) * sin(dlon / 2)**2
HaversineA16(lat1, lon1, lat2, lon2) ==
  4 * SinSqHalf4(lat2 - lat1) + Cos2(lat1) * Cos2(lat2) * SinSqHalf4(lon2 - lon1)

\* 1000 * c, for c = 2 * atan2(sqrt(a), sqrt(1 - a)), at 16 * a = 0, 1, ..., 16
CentralAngleMilli ==
  <<0, 505, 723, 896, 1047, 1186, 1318, 1445, 1571, 1696, 1823, 1955, 2094, 2246, 2419,
    2636, 3142>>

\* Earth's radius in km
R == 6371

\* return R * c, in whole km
calculate_distance(lat1, lon1, lat2, lon2) ==
  (R * CentralAngleMilli[HaversineA16(lat1, lon1, lat2, lon2) + 1]) \div 1000

\* doc.get("x", 0), doc.get("y", 0)
GetX(doc) == IF doc.hasX THEN doc.x ELSE 0

GetY(doc) == IF doc.hasY THEN doc.y ELSE 0

\* len(set(user_doc.get("hobbies", [])).intersection(set(source.get("hobbies", []))))
CommonHobbies(user_doc, source) == Cardinality(Range(user_doc.hobbies) \cap Range(source.hobbies))

\* calculate_distance(user_location[1], user_location[0], match_location[1], match_location[0])
Distance(user_doc, source) ==
  calculate_distance(GetY(user_doc), GetX(user_doc), GetY(source), GetX(source))

\* The sequences that hold each element of S once.
Orderings(S) ==
  {s \in [1..Cardinality(S) -> S] : \A i, j \in 1..Cardinality(S) : s[i] = s[j] => i = j}

\* A faulty variant: the search has no filter.
SearchUnfiltered(id) == Orderings({i \in Ids : store[i].exists})

\* es.search with the filter status = "single" and _id != id: the ids of the
\* hits, in an order the store chooses.
Search(id) == Orderings({i \in Ids : store[i].exists /\ store[i].status = "single" /\ i # id})

\* user_location = [user_doc.get("x", 0), user_doc.get("y", 0)] and
\* match_location = [source.get("x", 0), source.get("y", 0)]: each coordinate
\* has its own default.
LocationOf(doc) == <<GetX(doc), GetY(doc)>>

\* if "x" in source and "y" in source:
\*     source["location"] = {"lon": source["x"], "lat": source["y"]}
\* else:
\*     source["location"] = {"lon": 0, "lat": 0}
ReportedLocation(source) ==
  IF source.hasX /\ source.hasY THEN <<source.x, source.y>> ELSE <<0, 0>>

\* matches.append({"user": ..., "common_hobbies": ..., "distance": ...}) for each hit;
\* match_location is the position the distance was computed from and location
\* the one the returned user carries.
Scored(user_doc, hits) ==
  [k \in 1..Len(hits) |->
     [id |-> hits[k],
      common_hobbies |-> CommonHobbies(user_doc, store[hits[k]]),
      distance |-> Distance(user_doc, store[hits[k]]),
      match_location |-> LocationOf(store[hits[k]]),
      location |-> ReportedLocation(store[hits[k]])]]

\* A faulty variant: the distance is the first key.
KeyLessDistanceFirst(a, b) ==
  \/ a.distance < b.distance
  \/ a.distance = b.distance /\ -a.common_hobbies < -b.common_hobbies

\* key=lambda x: (-x["common_hobbies"], x["distance"]): the key of a is less
\* than the key of b.
KeyLess(a, b) ==
  \/ -a.common_hobbies < -b.common_hobbies
  \/ -a.common_hobbies = -b.common_hobbies /\ a.distance < b.distance

\* A faulty variant: m is put before the entries whose key is equal.
InsertBeforeEqual(sorted, m) ==
  LET after == {k \in 1..Len(sorted) : ~KeyLess(sorted[k], m)}
      at == IF after = {} THEN Len(sorted) + 1 ELSE CHOOSE k \in after : \A l \in after : k <= l
  IN  SubSeq(sorted, 1, at - 1) \o <<m>> \o SubSeq(sorted, at, Len(sorted))

\* m put into the sorted list before the first entry whose key is greater.
Insert(sorted, m) ==
  LET after == {k \in 1..Len(sorted) : KeyLess(m, sorted[k])}
      at == IF after = {} THEN Len(sorted) + 1 ELSE CHOOSE k \in after : \A l \in after : k <= l
  IN  SubSeq(sorted, 1, at - 1) \o <<m>> \o SubSeq(sorted, at, Len(sorted))

\* matches.sort(key=...): list.sort is stable.
RECURSIVE Sort(_)
Sort(matches) ==
  IF matches = <<>> THEN <<>>
  ELSE Insert(Sort(SubSeq(matches, 1, Len(matches) - 1)), matches[Len(matches)])

\* return [match["user"] for match in matches]
Matched(matches) ==
  [status |-> 200, detail |-> "", following |-> <<>>,
   ids |-> [k \in 1..Len(matches) |-> matches[k].id]]

\* except Exception as e:
\*   raise HTTPException(status_code=500, detail=f"Failed to retrieve matches: {str(e)}")
ExceptExceptionMatches(e) ==
  [e EXCEPT !.status = 500, !.detail = "Failed to retrieve matches: " \o @]

StartMatches(p) == \E id \in Ids : Begin(p, Request("get_matches", id, 0), "mt_exists")

MatchesExists(p) ==
  /\ pc[p] = "mt_exists"
  /\ Called(p, "exists")
  /\ UNCHANGED <<store, req, local, pre, store0>>
  /\ IF Exists(req[p].id)
     THEN Goto(p, "mt_get")
     ELSE Respond(p, ExceptExceptionMatches(HTTPException(404, "User not found")))

\* A faulty variant: the gate lets every requester through.
NotSingleNever(user_doc) == FALSE

\* if user_status != "single":
NotSingle(user_doc) == user_doc.status # "single"

\* user_doc = es.get(id)["_source"]; if user_status != "single": return []
MatchesGet(p) ==
  /\ pc[p] = "mt_get"
  /\ Called(p, "get")
  /\ UNCHANGED <<store, req, pre, store0>>
  /\ IF ~Exists(req[p].id)
     THEN /\ Respond(p, ExceptNotFoundError)
          /\ UNCHANGED local
     ELSE /\ local' = [local EXCEPT ![p].user_doc = store[req[p].id]]
          /\ IF NotSingle(store[req[p].id])
             THEN Respond(p, Matched(<<>>))
             ELSE Goto(p, "mt_search")

\* res = es.search(...); the loop over the hits; the sort; the return
MatchesSearch(p) ==
  /\ pc[p] = "mt_search"
  /\ Called(p, "search")
  /\ UNCHANGED <<store, req, pre, store0>>
  /\ \E hits \in Search(req[p].id) :
       LET matches == Sort(Scored(local[p].user_doc, hits))
       IN  /\ local' = [local EXCEPT ![p].hits = hits, ![p].matches = matches]
           /\ Respond(p, Matched(matches))

(***************************************************************************)
(* routes/get_followers.py: get_followers.  The handler has no clause for  *)
(* NotFoundError; every exception leaves it as a 500.                      *)
(***************************************************************************)
StartGetFollowers(p) == \E id \in Ids : Begin(p, Request("get_followers", id, 0), "gr_exists")

GetFollowersExists(p) ==
  /\ pc[p] = "gr_exists"
  /\ Called(p, "exists")
  /\ UNCHANGED <<store, req, local, pre, store0>>
  /\ IF Exists(req[p].id)
     THEN Goto(p, "gr_search")
     ELSE Respond(p, ExceptException(HTTPException(404, "User not found")))

\* The index as a search can see it.  es.exists and es.get read the
\* document as last written; es.search reads the index as of its last
\* refresh, and no write of the handlers asks for one (es.index, es.update
\* and es.delete are called without refresh): the search sees the index as
\* it is, or as it was at the start or when an earlier request responded.
Searchable == {store, store0} \cup {post[q] : q \in {r \in Procs : pc[r] = "done"}}

\* query = {"term": {"following": id}}: the ids of the hits in index, in an
\* order the store chooses.
SearchFollowers(index, id) ==
  Orderings({i \in Ids : index[i].exists /\ Contains(index[i].following, id)})

\* res = es.search(...); users.append(User(id=int(hit["_id"]), **source)) for
\* each hit; return users
GetFollowersSearch(p) ==
  /\ pc[p] = "gr_search"
  /\ Called(p, "search")
  /\ UNCHANGED <<store, req, pre, store0>>
  /\ \E index \in Searchable :
       \E hits \in SearchFollowers(index, req[p].id) :
         /\ local' = [local EXCEPT ![p].hits = hits, ![p].fresh = (index = store)]
         /\ Respond(p, Suggested(hits))

(***************************************************************************)
(* routes/get_following.py: get_following.                                 *)
(***************************************************************************)
StartGetFollowing(p) == \E id \in Ids : Begin(p, Request("get_following", id, 0), "gf_exists")

GetFollowingExists(p) ==
  /\ pc[p] = "gf_exists"
  /\ Called(p, "exists")
  /\ UNCHANGED <<store, req, local, pre, store0>>
  /\ IF Exists(req[p].id)
     THEN Goto(p, "gf_get")
     ELSE Respond(p, ExceptException(HTTPException(404, "User not found")))

\* The loop moves on from place i of following with following_users
\* collected so far: to the next id, or to the return.
GetFollowingNext(p, i, following_users) ==
  /\ local' = [local EXCEPT ![p].i = i + 1, ![p].suggestions = following_users]
  /\ IF i < Len(local[p].following)
     THEN Goto(p, "gf_follow_exists")
     ELSE Respond(p, Suggested(following_users))

\* user_doc = es.get(id)["_source"]; following = user_doc.get("following", [])
GetFollowingGet(p) ==
  /\ pc[p] = "gf_get"
  /\ Called(p, "get")
  /\ UNCHANGED <<store, req, pre, store0>>
  /\ IF ~Exists(req[p].id)
     THEN /\ Respond(p, ExceptNotFoundError)
          /\ UNCHANGED local
     ELSE LET following == store[req[p].id].following
          IN  /\ local' = [local EXCEPT ![p].following = following, ![p].i = 1]
              /\ IF Len(following) = 0
                 THEN Respond(p, Suggested(<<>>))
                 ELSE Goto(p, "gf_follow_exists")

\* for follow_id in following: if es.exists(follow_id):
GetFollowingFollowExists(p) ==
  /\ pc[p] = "gf_follow_exists"
  /\ Called(p, "exists")
  /\ UNCHANGED <<store, req, pre, store0>>
  /\ IF Exists(local[p].following[local[p].i])
     THEN /\ Goto(p, "gf_follow_get")
          /\ UNCHANGED local
     ELSE GetFollowingNext(p, local[p].i, local[p].suggestions)

\* doc = es.get(follow_id)["_source"]; following_users.append(User(id=follow_id, **doc))
GetFollowingFollowGet(p) ==
  /\ pc[p] = "gf_follow_get"
  /\ Called(p, "get")
  /\ UNCHANGED <<store, req, pre, store0>>
  /\ LET follow_id == local[p].following[local[p].i]
     IN  IF ~Exists(follow_id)
         THEN /\ Respond(p, ExceptNotFoundError)
              /\ UNCHANGED local
         ELSE GetFollowingNext(p, local[p].i, Append(local[p].suggestions, follow_id))

(***************************************************************************)
(* Matches.py: get_matches with the ranking done by the store.             *)
(***************************************************************************)
\* The script of the sort: for (hobby in user_hobbies) { if
\* (doc_hobbies.contains(hobby)) { common++; } }, with user_hobbies the list
\* user_doc.get("hobbies", []) as stored, repeated entries included.
ScriptCommon(user_doc, source) ==
  Cardinality({i \in 1..Len(user_doc.hobbies) : Contains(source.hobbies, user_doc.hobbies[i])})

\* _geo_distance from {"lat": user_location[1], "lon": user_location[0]} to
\* the document's location, which is {"lon": x, "lat": y} (and 0, 0 for a
\* document without them); an arc distance, which orders as calculate_distance.
GeoDistance(user_doc, source) ==
  calculate_distance(GetY(user_doc), GetX(user_doc), GetY(source), GetX(source))

\* sort = [{"_script": ..., "order": "desc"}, {"_geo_distance": ..., "order": "asc"}]:
\* the hit a does not come after the hit b.
SortedBefore(user_doc, a, b) ==
  \/ ScriptCommon(user_doc, store[a]) > ScriptCommon(user_doc, store[b])
  \/ /\ ScriptCommon(user_doc, store[a]) = ScriptCommon(user_doc, store[b])
     /\ GeoDistance(user_doc, store[a]) <= GeoDistance(user_doc, store[b])

\* es.search with the same filter and the sort: the hits in an order of the
\* sort, ties in an order the store chooses.
SortedSearch(id, user_doc) ==
  {hits \in Search(id) :
     \A i, j \in 1..Len(hits) : i < j => SortedBefore(user_doc, hits[i], hits[j])}

StartNativeMatches(p) ==
  \E id \in Ids : Begin(p, Request("get_matches_native", id, 0), "mn_exists")

NativeMatchesExists(p) ==
  /\ pc[p] = "mn_exists"
  /\ Called(p, "exists")
  /\ UNCHANGED <<store, req, local, pre, store0>>
  /\ IF Exists(req[p].id)
     THEN Goto(p, "mn_get")
     ELSE Respond(p, ExceptExceptionMatches(HTTPException(404, "User not found")))

NativeMatchesGet(p) ==
  /\ pc[p] = "mn_get"
  /\ Called(p, "get")
  /\ UNCHANGED <<store, req, pre, store0>>
  /\ IF ~Exists(req[p].id)
     THEN /\ Respond(p, ExceptNotFoundError)
          /\ UNCHANGED local
     ELSE /\ local' = [local EXCEPT ![p].user_doc = store[req[p].id]]
          /\ IF NotSingle(store[req[p].id])
             THEN Respond(p, Matched(<<>>))
             ELSE Goto(p, "mn_search")

\* res = es.search(body={"query": query, "sort": sort}); the loop over the
\* hits; return matches
NativeMatchesSearch(p) ==
  /\ pc[p] = "mn_search"
  /\ Called(p, "search")
  /\ UNCHANGED <<store, req, pre, store0>>
  /\ \E hits \in SortedSearch(req[p].id, local[p].user_doc) :
       /\ local' = [local EXCEPT ![p].hits = hits]
       /\ Respond(p, Suggested(hits))

(***************************************************************************)
(* Specifications.                                                         *)
(***************************************************************************)
\* The request slots are empty.
InitSlots ==
  /\ store0 = store
  /\ pc = [p \in Procs |-> "idle"]
  /\ req = [p \in Procs |-> NoReq]
  /\ local = [p \in Procs |-> NoLocal]
  /\ result = [p \in Procs |-> NoResult]
  /\ calls = [p \in Procs |-> <<>>]
  /\ pre = [p \in Procs |-> store]
  /\ post = [p \in Procs |-> store]

\* The index as create_user calls can have left it: profile 1 with any list
\* a request can carry, the other profiles with an empty list, each there or not.
InitFollow ==
  /\ store \in [Ids -> {NoDoc} \cup {CreateBody(f, "single") : f \in FollowInputs}]
  /\ \A i \in Ids : i # 1 => store[i].following = <<>>
  /\ InitSlots

\* The slots a request has entered.
Started == {p \in Procs : pc[p] # "idle"}

\* No other request is inside its handler.
Quiet(p) == \A q \in Procs \ {p} : pc[q] \in {"idle", "done"}

FollowStep(p) ==
  \/ AddFollowExistsId(p)
  \/ AddFollowExistsFollow(p)
  \/ AddFollowGet(p)
  \/ AddFollowUpdate(p)
  \/ RemoveFollowExistsId(p)
  \/ RemoveFollowExistsFollow(p)
  \/ RemoveFollowGet(p)
  \/ RemoveFollowUpdate(p)

\* Follow and unfollow requests, one per slot, interleaved at their store calls.
Next ==
  \E p \in Procs :
    \/ StartAddFollow(p)
    \/ StartRemoveFollow(p)
    \/ FollowStep(p)

Spec == InitFollow /\ [][Next]_vars

\* Follow and unfollow requests, one after the other.
SeqNext ==
  \E p \in Procs :
    \/ Quiet(p) /\ StartAddFollow(p)
    \/ Quiet(p) /\ StartRemoveFollow(p)
    \/ FollowStep(p)

SpecSeq == InitFollow /\ [][SeqNext]_vars

\* One follow or unfollow request on an index nothing else writes.
OneNext ==
  \E p \in Procs :
    \/ Started = {} /\ StartAddFollow(p)
    \/ Started = {} /\ StartRemoveFollow(p)
    \/ FollowStep(p)

SpecOne == InitFollow /\ [][OneNext]_vars

\* One follow or unfollow request whose update may fail.
UpdateFailsNext ==
  \E p \in Procs :
    \/ Started = {} /\ StartAddFollow(p)
    \/ Started = {} /\ StartRemoveFollow(p)
    \/ FollowStep(p)
    \/ AddFollowUpdateFails(p)
    \/ RemoveFollowUpdateFails(p)

SpecUpdateFails == InitFollow /\ [][UpdateFailsNext]_vars

\* The index is empty, or holds every profile with an empty list.
InitCrud ==
  /\ store \in {[i \in Ids |-> NoDoc], [i \in Ids |-> CreateBody(<<>>, "single")]}
  /\ InitSlots

CrudStep(p) ==
  \/ CreateUserExists(p)
  \/ CreateUserIndex(p)
  \/ UpdateUserExists(p)
  \/ UpdateUserUpdate(p)
  \/ UpdateUserGet(p)
  \/ DeleteUserExists(p)
  \/ DeleteUserDelete(p)

\* Every handler that writes the index, interleaved at their store calls.
CrudNext ==
  \E p \in Procs :
    \/ StartCreateUser(p)
    \/ StartUpdateUser(p)
    \/ StartDeleteUser(p)
    \/ DeleteAllUsers(p)
    \/ StartAddFollow(p)
    \/ StartRemoveFollow(p)
    \/ CrudStep(p)
    \/ FollowStep(p)

SpecCrud == InitCrud /\ [][CrudNext]_vars

\* One create_user, update_user, delete_user or delete_all_users request on
\* an index nothing else writes.
CrudOneNext ==
  \E p \in Procs :
    \/ Started = {} /\ StartCreateUser(p)
    \/ Started = {} /\ StartUpdateUser(p)
    \/ Started = {} /\ StartDeleteUser(p)
    \/ Started = {} /\ DeleteAllUsers(p)
    \/ CrudStep(p)

SpecCrudOne == InitFollow /\ [][CrudOneNext]_vars

\* create_user requests of either layout, interleaved at their store calls.
CreateNext ==
  \E p \in Procs :
    \/ StartCreateUser(p)
    \/ CreateUserExists(p)
    \/ CreateUserIndex(p)
    \/ StartMainCreateUser(p)
    \/ MainCreateUserExists(p)
    \/ MainCreateUserIndex(p)

SpecCreate == InitCrud /\ [][CreateNext]_vars

\* The index with any profiles and any following lists a request can carry.
InitSuggestions ==
  /\ store \in [Ids -> {NoDoc} \cup {CreateBody(f, "single") : f \in FollowInputs}]
  /\ InitSlots

\* One suggestions request on an index nothing else writes.
SuggestionsNext ==
  \E p \in Procs :
    \/ Started = {} /\ StartSuggestions(p)
    \/ SuggestionsExists(p)
    \/ SuggestionsGet(p)
    \/ SuggestionsFollowedExists(p)
    \/ SuggestionsFollowedGet(p)
    \/ SuggestionsCandidateExists(p)
    \/ SuggestionsCandidateGet(p)

SpecSuggestions == InitSuggestions /\ [][SuggestionsNext]_vars

\* A document as a matches request can find it: hobbies, and x and y both
\* there or both missing.
MatchDoc(status, hobbies, xy) ==
  [exists |-> TRUE, following |-> <<>>, status |-> status, hobbies |-> hobbies,
   hasX |-> xy[1], x |-> xy[2], hasY |-> xy[1], y |-> xy[3]]

\* Single profiles with no hobbies, one or both, at no position, at (0, 60)
\* or at (60, 60); a married profile with both hobbies.
MatchDocs ==
  {MatchDoc("single", h, xy) :
     h \in {<<>>, <<"hiking">>, <<"reading", "hiking">>},
     xy \in {<<FALSE, 0, 0>>, <<TRUE, 0, 60>>, <<TRUE, 60, 60>>}}
  \cup {MatchDoc("married", <<"reading", "hiking">>, <<FALSE, 0, 0>>)}

InitMatches ==
  /\ store \in [Ids -> {NoDoc} \cup MatchDocs]
  /\ InitSlots

\* One matches request on an index nothing else writes.
MatchesNext ==
  \E p \in Procs :
    \/ Started = {} /\ StartMatches(p)
    \/ MatchesExists(p)
    \/ MatchesGet(p)
    \/ MatchesSearch(p)

SpecMatches == InitMatches /\ [][MatchesNext]_vars

\* Profiles whose hobbies are none, one, the other, or both with one of them
\* entered twice, at the positions of MatchDocs; a married profile.
NativeMatchDocs ==
  {MatchDoc("single", h, xy) :
     h \in {<<>>, <<"hiking">>, <<"reading">>, <<"hiking", "hiking", "reading">>},
     xy \in {<<FALSE, 0, 0>>, <<TRUE, 0, 60>>, <<TRUE, 60, 60>>}}
  \cup {MatchDoc("married", <<"reading", "hiking">>, <<FALSE, 0, 0>>)}

InitNativeMatches ==
  /\ store \in [Ids -> {NoDoc} \cup NativeMatchDocs]
  /\ InitSlots

\* One matches request of either formulation on an index nothing else writes.
NativeMatchesNext ==
  \E p \in Procs :
    \/ Started = {} /\ StartNativeMatches(p)
    \/ Started = {} /\ StartMatches(p)
    \/ NativeMatchesExists(p)
    \/ NativeMatchesGet(p)
    \/ NativeMatchesSearch(p)
    \/ MatchesExists(p)
    \/ MatchesGet(p)
    \/ MatchesSearch(p)

SpecNativeMatches == InitNativeMatches /\ [][NativeMatchesNext]_vars

\* No request of the kind op has been made.
NoneStarted(op) == \A q \in Procs : req[q].op # op

SuggestionsStep(p) ==
  \/ SuggestionsExists(p)
  \/ SuggestionsGet(p)
  \/ SuggestionsFollowedExists(p)
  \/ SuggestionsFollowedGet(p)
  \/ SuggestionsCandidateExists(p)
  \/ SuggestionsCandidateGet(p)

\* One suggestions request, and delete_user requests interleaved with it at
\* their store calls.
SuggestionsDeleteNext ==
  \E p \in Procs :
    \/ NoneStarted("get_user_suggestions") /\ StartSuggestions(p)
    \/ StartDeleteUser(p)
    \/ SuggestionsStep(p)
    \/ DeleteUserExists(p)
    \/ DeleteUserDelete(p)

SpecSuggestionsDelete == InitSuggestions /\ [][SuggestionsDeleteNext]_vars

\* The index is empty, or holds every profile, each following the next.
InitFrame ==
  /\ store \in {[i \in Ids |-> NoDoc],
                [i \in Ids |-> CreateBody(IF i < NumIds THEN <<i + 1>> ELSE <<>>, "single")]}
  /\ InitSlots

ReadsAndFollows == {"add_follow", "remove_follow", "get_user_suggestions", "get_matches"}

\* No follow, unfollow, suggestions or matches request has been made.
NoReadOrFollow == \A q \in Procs : req[q].op \notin ReadsAndFollows

\* No create_user or delete_user request has been made.
NoCreateOrDelete == \A q \in Procs : req[q].op \notin {"create_user", "delete_user"}

\* One follow, unfollow, suggestions or matches request and one create_user
\* or delete_user request, interleaved at their store calls.
FrameNext ==
  \E p \in Procs :
    \/ NoReadOrFollow /\ StartAddFollow(p)
    \/ NoReadOrFollow /\ StartRemoveFollow(p)
    \/ NoReadOrFollow /\ StartSuggestions(p)
    \/ NoReadOrFollow /\ StartMatches(p)
    \/ NoCreateOrDelete /\ StartCreateUser(p)
    \/ NoCreateOrDelete /\ StartDeleteUser(p)
    \/ FollowStep(p)
    \/ SuggestionsStep(p)
    \/ MatchesExists(p)
    \/ MatchesGet(p)
    \/ MatchesSearch(p)
    \/ CreateUserExists(p)
    \/ CreateUserIndex(p)
    \/ DeleteUserExists(p)
    \/ DeleteUserDelete(p)

SpecFrame == InitFrame /\ [][FrameNext]_vars

\* The id after i, the first after the last.
NextId(i) == (i % NumIds) + 1

\* The ids other than i, in increasing order.
OtherIds(i) == LET other(k) == k # i IN SelectSeq([k \in 1..NumIds |-> k], other)

\* Profile i, single or married, following nobody, the next profile, or
\* every other profile.
SingleSuggestionsDocs(i) ==
  {CreateBody(f, st) : f \in {<<>>, <<NextId(i)>>, OtherIds(i)}, st \in Statuses}

InitSingleSuggestions ==
  /\ store \in [Ids -> {NoDoc} \cup UNION {SingleSuggestionsDocs(i) : i \in Ids}]
  /\ \A i \in Ids : store[i].exists => store[i] \in SingleSuggestionsDocs(i)
  /\ InitSlots

\* One suggestions request for single profiles on an index nothing else
\* writes.
SingleSuggestionsNext ==
  \E p \in Procs :
    \/ Started = {} /\ StartSingleSuggestions(p)
    \/ SingleSuggestionsExists(p)
    \/ SingleSuggestionsGet(p)
    \/ SingleSuggestionsFollowedExists(p)
    \/ SingleSuggestionsFollowedGet(p)
    \/ SingleSuggestionsCandidateExists(p)
    \/ SingleSuggestionsCandidateGet(p)

SpecSingleSuggestions == InitSingleSuggestions /\ [][SingleSuggestionsNext]_vars

\* The positions on the grid of 60 degrees with x (the longitude) and y (the
\* latitude) from -60 to 60, and no position.
Points ==
  {<<FALSE, 0, 0>>} \cup {<<TRUE, x, y>> : x \in {-60, 0, 60}, y \in {-60, 0, 60}}

\* Profiles 1 and 2 are single, each at any position; the others are not in
\* the index.
InitDistance ==
  /\ store \in [Ids -> {NoDoc} \cup {MatchDoc("single", <<>>, xy) : xy \in Points}]
  /\ \A i \in Ids : store[i].exists <=> i \in {1, 2}
  /\ InitSlots

\* Matches requests, one after the other.
DistanceNext ==
  \E p \in Procs :
    \/ Quiet(p) /\ StartMatches(p)
    \/ MatchesExists(p)
    \/ MatchesGet(p)
    \/ MatchesSearch(p)

SpecDistance == InitDistance /\ [][DistanceNext]_vars

\* The index of either kind, and one suggestions or matches request on it.
InitReads ==
  /\ \/ store \in [Ids -> {NoDoc} \cup {CreateBody(f, "single") : f \in FollowInputs}]
     \/ store \in [Ids -> {NoDoc} \cup MatchDocs]
  /\ InitSlots

ReadsNext == SuggestionsNext \/ MatchesNext

SpecReads == InitReads /\ [][ReadsNext]_vars

\* A single profile with no hobbies whose document has x, y, both or neither.
PositionDoc(hasX, x, hasY, y) ==
  [exists |-> TRUE, following |-> <<>>, status |-> "single", hobbies |-> <<>>,
   hasX |-> hasX, x |-> x, hasY |-> hasY, y |-> y]

\* The index accepts a document with one coordinate: neither the mapping nor
\* a handler ties x to y.  Coordinates are 0 or 60 degrees.
PositionDocs ==
  {PositionDoc(FALSE, 0, FALSE, 0)}
  \cup {PositionDoc(TRUE, x, FALSE, 0) : x \in {0, 60}}
  \cup {PositionDoc(FALSE, 0, TRUE, y) : y \in {0, 60}}
  \cup {PositionDoc(TRUE, x, TRUE, y) : x \in {0, 60}, y \in {0, 60}}

InitPosition ==
  /\ store \in [Ids -> {NoDoc} \cup PositionDocs]
  /\ InitSlots

\* One matches request on an index whose documents may lack a coordinate.
SpecPosition == InitPosition /\ [][MatchesNext]_vars

\* The lists of profile i that follow and unfollow requests leave: no id
\* twice and not i itself; the ids in them may or may not be in the index.
FollowLists(i) ==
  {f \in FollowInputs : i \notin Range(f) /\ \A k, l \in 1..Len(f) : f[k] = f[l] => k = l}

InitFollowers ==
  /\ store \in [Ids -> {NoDoc} \cup {CreateBody(f, "single") : f \in FollowInputs}]
  /\ \A i \in Ids : store[i].following \in FollowLists(i)
  /\ InitSlots

GetFollowingStep(p) ==
  \/ GetFollowingExists(p)
  \/ GetFollowingGet(p)
  \/ GetFollowingFollowExists(p)
  \/ GetFollowingFollowGet(p)

\* A request that writes a following list or deletes a profile, and then a
\* request that reads the lists; or two requests that read them, one after
\* the other.
FollowersNext ==
  \E p \in Procs :
    \/ Started = {} /\ StartAddFollow(p)
    \/ Started = {} /\ StartRemoveFollow(p)
    \/ Started = {} /\ StartDeleteUser(p)
    \/ Quiet(p) /\ StartGetFollowers(p)
    \/ Quiet(p) /\ StartGetFollowing(p)
    \/ Quiet(p) /\ StartSuggestions(p)
    \/ FollowStep(p)
    \/ DeleteUserExists(p)
    \/ DeleteUserDelete(p)
    \/ GetFollowersExists(p)
    \/ GetFollowersSearch(p)
    \/ GetFollowingStep(p)
    \/ SuggestionsStep(p)

SpecFollowers == InitFollowers /\ [][FollowersNext]_vars

(***************************************************************************)
(* Properties of follow and unfollow.                                      *)
(***************************************************************************)
IsDone(p, op) == pc[p] = "done" /\ req[p].op = op

\* The handler of slot p has made no store call that writes.
NoWrite(p) ==
  \A i \in 1..Len(calls[p]) : calls[p][i] \notin {"index", "update", "delete", "delete_by_query"}

\* The requests made are add_follow(F, T), all finished, with F and T profiles
\* of the index the requests found.
AddsOnly(F) ==
  /\ Cardinality(Started) >= 2
  /\ store0[F].exists
  /\ \A p \in Started :
       /\ IsDone(p, "add_follow")
       /\ req[p].id = F
       /\ req[p].follow_id # F
       /\ store0[req[p].follow_id].exists

\* C1: when two or more add_follow(F, Ti) requests with pairwise distinct
\* existing targets, none of them F and none in F's following, have all
\* finished, whatever the interleaving of their store calls, F's stored
\* following holds every Ti exactly once.
C1_DistinctTargetsAllPresent ==
  \A F \in Ids :
    ( /\ AddsOnly(F)
      /\ \A p \in Started : ~Contains(store0[F].following, req[p].follow_id)
      /\ \A p, q \in Started : p # q => req[p].follow_id # req[q].follow_id )
    => \A p \in Started : Count(store[F].following, req[p].follow_id) = 1

\* C2: when two or more add_follow(F, T) requests for the same existing pair,
\* T # F, have all finished, whatever the interleaving of their store calls
\* and with no other request made, F's stored following holds T exactly once.
C2_SameTargetOnce ==
  \A F \in Ids, T \in Ids :
    (AddsOnly(F) /\ \A p \in Started : req[p].follow_id = T)
    => Count(store[F].following, T) = 1

\* C2 for a follower whose list did not already hold T twice or more.
C2_SameTargetOnceFromNoDuplicate ==
  \A F \in Ids, T \in Ids :
    (AddsOnly(F) /\ Count(store0[F].following, T) <= 1 /\ \A p \in Started : req[p].follow_id = T)
    => Count(store[F].following, T) = 1

\* C3: add_follow(F, T) run twice in sequence, F and T existing and T # F,
\* leaves the stored following the first run left and returns the list the
\* first run returned, and that list holds T exactly once.
C3_AddFollowTwice ==
  \A p, q \in Procs, F \in Ids :
    ( /\ p # q
      /\ Started = {p, q}
      /\ AddsOnly(F)
      /\ req[p].follow_id = req[q].follow_id )
    => /\ result[p].status = 200
       /\ result[q] = result[p]
       /\ post[q][F].following = post[p][F].following
       /\ result[p].following = store[F].following
       /\ Count(store[F].following, req[p].follow_id) = 1

\* C3 for a follower whose list did not already hold T twice or more.
C3_AddFollowTwiceFromNoDuplicate ==
  \A p, q \in Procs, F \in Ids :
    ( /\ p # q
      /\ Started = {p, q}
      /\ AddsOnly(F)
      /\ req[p].follow_id = req[q].follow_id
      /\ Count(store0[F].following, req[p].follow_id) <= 1 )
    => /\ result[p].status = 200
       /\ result[q] = result[p]
       /\ post[q][F].following = post[p][F].following
       /\ result[p].following = store[F].following
       /\ Count(store[F].following, req[p].follow_id) = 1

\* A remove_follow(F, T) request has finished that found F and T in the index
\* and T not in F's following.
RemovedAbsent(p) ==
  /\ IsDone(p, "remove_follow")
  /\ pre[p][req[p].id].exists
  /\ pre[p][req[p].follow_id].exists
  /\ ~Contains(pre[p][req[p].id].following, req[p].follow_id)

\* C4: remove_follow(F, T) for existing F and T, T not in F's following,
\* returns 200 with F's following as it was, and leaves the stored following
\* of F (and the rest of the index) as it was before the call.
C4_RemoveAbsentUnchanged ==
  \A p \in Procs :
    RemovedAbsent(p)
    => /\ result[p].status = 200
       /\ result[p].following = pre[p][req[p].id].following
       /\ post[p] = pre[p]

\* C4's case: an unfollow of a profile not followed, by a follower of others.
C4_Witness ==
  \E p \in Procs : RemovedAbsent(p) /\ Len(pre[p][req[p].id].following) = 2

\* C5: add_follow(F, F) for an existing F responds 400 "Cannot follow self",
\* makes no store write and leaves F's stored following as it was.
C5_SelfFollowRejected ==
  \A p \in Procs :
    ( /\ IsDone(p, "add_follow")
      /\ req[p].id = req[p].follow_id
      /\ pre[p][req[p].id].exists )
    => /\ result[p].status = 400
       /\ result[p].detail = "Cannot follow self"
       /\ NoWrite(p)
       /\ post[p][req[p].id].following = pre[p][req[p].id].following

\* C5 without the status: the self-follow check is the one that fires, and
\* nothing is written.
C5_SelfFollowNoWrite ==
  \A p \in Procs :
    ( /\ IsDone(p, "add_follow")
      /\ req[p].id = req[p].follow_id
      /\ pre[p][req[p].id].exists )
    => /\ result[p].detail = "Cannot follow self"
       /\ NoWrite(p)
       /\ post[p] = pre[p]

\* C6: add_follow(F, T) and remove_follow(F, T) respond 404 when F or T is
\* not in the index, with "User not found" when F is missing and "Follow
\* user not found" when only T is, and write nothing.
C6_MissingIdNotFound ==
  \A p \in Procs :
    ( /\ pc[p] = "done"
      /\ req[p].op \in {"add_follow", "remove_follow"}
      /\ ~(pre[p][req[p].id].exists /\ pre[p][req[p].follow_id].exists) )
    => /\ result[p].status = 404
       /\ result[p].detail =
            IF pre[p][req[p].id].exists THEN "Follow user not found" ELSE "User not found"
       /\ NoWrite(p)
       /\ post[p] = pre[p]

\* C6 without the status: the check of the missing id is the one that fires,
\* and nothing is written.
C6_MissingIdNoWrite ==
  \A p \in Procs :
    ( /\ pc[p] = "done"
      /\ req[p].op \in {"add_follow", "remove_follow"}
      /\ ~(pre[p][req[p].id].exists /\ pre[p][req[p].follow_id].exists) )
    => /\ result[p].detail =
            IF pre[p][req[p].id].exists THEN "Follow user not found" ELSE "User not found"
       /\ NoWrite(p)
       /\ post[p] = pre[p]

\* C7: in every state of the index that create_user, update_user,
\* delete_user, delete_all_users, add_follow and remove_follow can reach,
\* interleaved in any way, no following list holds an id twice.
C7_NoDuplicateFollowing ==
  \A i \in Ids : store[i].exists => \A x \in Ids : Count(store[i].following, x) <= 1

\* C8: in every such state no following list holds its own profile's id.
C8_NoSelfFollowing ==
  \A i \in Ids : store[i].exists => ~Contains(store[i].following, i)

(***************************************************************************)
(* Properties of suggestions.                                              *)
(***************************************************************************)
\* The ids that the profiles U follows, those still in the index, follow.
SecondDegree(index, U) ==
  {c \in Ids : \E f \in Range(index[U].following) :
                 index[f].exists /\ Contains(index[f].following, c)}

\* C9: with nothing else writing the index, the suggestions for an existing
\* U are exactly the profiles of the index that someone U follows (and who
\* is still in the index) follows, less U and less those U follows; U and
\* the ids U follows are never among them.
C9_SuggestionsExact ==
  \A p \in Procs :
    (IsDone(p, "get_user_suggestions") /\ pre[p][req[p].id].exists)
    => LET U == req[p].id
           F == Range(pre[p][U].following)
       IN  /\ result[p].status = 200
           /\ Range(result[p].ids) =
                {c \in SecondDegree(pre[p], U) \ ({U} \cup F) : pre[p][c].exists}
           /\ U \notin Range(result[p].ids)
           /\ F \cap Range(result[p].ids) = {}

\* C9's case: U follows A alone, A follows B and U, and the answer is B alone.
C9_Witness ==
  \E p \in Procs, A \in Ids, B \in Ids :
    /\ IsDone(p, "get_user_suggestions")
    /\ Cardinality({req[p].id, A, B}) = 3
    /\ pre[p][req[p].id].exists /\ pre[p][A].exists /\ pre[p][B].exists
    /\ pre[p][req[p].id].following = <<A>>
    /\ pre[p][A].following = <<B, req[p].id>>
    /\ result[p].ids = <<B>>

(***************************************************************************)
(* Properties of matches.                                                  *)
(***************************************************************************)
\* The candidate at place i of the answer of slot p comes before the one at
\* place j by the ranking: more interests in common with the requester, or
\* as many and not farther from the requester.
RankedBefore(p, i, j) ==
  LET user_doc == pre[p][req[p].id]
      a == pre[p][result[p].ids[i]]
      b == pre[p][result[p].ids[j]]
  IN  \/ CommonHobbies(user_doc, a) > CommonHobbies(user_doc, b)
      \/ /\ CommonHobbies(user_doc, a) = CommonHobbies(user_doc, b)
         /\ Distance(user_doc, a) <= Distance(user_doc, b)

\* C10: in the answer to a matches request of a single requester, a
\* candidate at an earlier place has strictly more interests in common with
\* the requester than one at a later place, or as many and a distance to
\* the requester that is less or equal, whatever the distances of the
\* former case and the order in which the store returned the hits.
C10_MatchOrdering ==
  \A p \in Procs :
    (IsDone(p, "get_matches") /\ result[p].status = 200)
    => \A i, j \in 1..Len(result[p].ids) : i < j => RankedBefore(p, i, j)

\* C10's case: the store returned Y before X, X has more interests in common
\* with the requester and is farther from the requester, and the answer has
\* X before Y.
C10_Witness ==
  \E p \in Procs :
    /\ IsDone(p, "get_matches")
    /\ result[p].status = 200
    /\ Len(result[p].ids) = 2
    /\ local[p].hits = <<result[p].ids[2], result[p].ids[1]>>
    /\ LET user_doc == pre[p][req[p].id]
           X == pre[p][result[p].ids[1]]
           Y == pre[p][result[p].ids[2]]
       IN  /\ CommonHobbies(user_doc, X) > CommonHobbies(user_doc, Y)
           /\ Distance(user_doc, X) > Distance(user_doc, Y)

\* C11: a matches request of a requester that is in the index with a status
\* other than "single" answers 200 with the empty list, and its handler
\* makes no search call.
C11_MatchGate ==
  \A p \in Procs :
    ( /\ IsDone(p, "get_matches")
      /\ pre[p][req[p].id].exists
      /\ pre[p][req[p].id].status # "single" )
    => /\ result[p].status = 200
       /\ result[p].ids = <<>>
       /\ \A i \in 1..Len(calls[p]) : calls[p][i] # "search"

\* C11's case: a married requester, with a single profile in the index that
\* a search would have returned.
C11_Witness ==
  \E p \in Procs, c \in Ids :
    /\ IsDone(p, "get_matches")
    /\ pre[p][req[p].id].exists
    /\ pre[p][req[p].id].status = "married"
    /\ c # req[p].id
    /\ pre[p][c].exists /\ pre[p][c].status = "single"
    /\ result[p].ids = <<>>

(***************************************************************************)
(* Properties of the requester's existence check.                          *)
(***************************************************************************)
\* A suggestions or matches request has finished whose requester was not in
\* the index.
MissingRequester(p) ==
  /\ pc[p] = "done"
  /\ req[p].op \in {"get_user_suggestions", "get_matches"}
  /\ ~pre[p][req[p].id].exists

\* C12: a suggestions or matches request of a requester that is not in the
\* index responds 404 "User not found", and its handler makes no store call
\* after the existence check that failed.
C12_MissingRequesterNotFound ==
  \A p \in Procs :
    MissingRequester(p)
    => /\ result[p].status = 404
       /\ result[p].detail = "User not found"
       /\ calls[p] = <<"exists">>

\* C12 without the status and the text: the handler stops at the existence
\* check with an error and leaves the index alone.
C12_MissingRequesterNoFurtherCall ==
  \A p \in Procs :
    MissingRequester(p)
    => /\ result[p].status >= 400
       /\ calls[p] = <<"exists">>
       /\ post[p] = pre[p]

(***************************************************************************)
(* Properties of suggestions while profiles are deleted.                   *)
(***************************************************************************)
\* C13: a suggestions request of a requester that is in the index from the
\* request's first store call to its last answers 200, whichever other
\* profiles delete_user requests take out of the index during the request
\* (between the existence check of a followed or suggested id and the fetch
\* of its document included), and no profile it returns was missing from
\* the index all along.
C13_DeletedCandidateDropped ==
  \A p \in Procs :
    ( /\ IsDone(p, "get_user_suggestions")
      /\ pre[p][req[p].id].exists
      /\ post[p][req[p].id].exists )
    => /\ result[p].status = 200
       /\ \A c \in Range(result[p].ids) : pre[p][c].exists

\* C13 for the deletions that the existence checks see: a request whose
\* es.get calls all found their document answers 200.
C13_DeletedBeforeCheckDropped ==
  \A p \in Procs :
    ( /\ IsDone(p, "get_user_suggestions")
      /\ pre[p][req[p].id].exists
      /\ post[p][req[p].id].exists
      /\ result[p] # ExceptNotFoundError )
    => /\ result[p].status = 200
       /\ \A c \in Range(result[p].ids) : pre[p][c].exists

(***************************************************************************)
(* Properties of the candidates of matches.                                *)
(***************************************************************************)
\* The profiles of index with the status "single", less U.
SingleOthers(index, U) ==
  {i \in Ids : index[i].exists /\ index[i].status = "single" /\ i # U}

PlaceOf(ids, id) == CHOOSE k \in 1..Len(ids) : ids[k] = id

\* The candidates c and d have as many interests in common with the
\* requester of slot p, and the same distance to the requester.
Tied(p, c, d) ==
  LET user_doc == pre[p][req[p].id]
  IN  /\ CommonHobbies(user_doc, pre[p][c]) = CommonHobbies(user_doc, pre[p][d])
      /\ Distance(user_doc, pre[p][c]) = Distance(user_doc, pre[p][d])

\* C15: two candidates of a matches answer that are tied on both keys stand
\* in the answer in the order in which the search returned them.
C15_StableTies ==
  \A p \in Procs :
    (IsDone(p, "get_matches") /\ result[p].status = 200)
    => \A i, j \in 1..Len(result[p].ids) :
         (i < j /\ Tied(p, result[p].ids[i], result[p].ids[j]))
         => PlaceOf(local[p].hits, result[p].ids[i]) < PlaceOf(local[p].hits, result[p].ids[j])

\* C15's case: the search returned the tied candidates c and d, c with the
\* greater id first, and the answer has c first.
C15_Witness ==
  \E p \in Procs, c \in Ids, d \in Ids :
    /\ IsDone(p, "get_matches")
    /\ c > d
    /\ local[p].hits = <<c, d>>
    /\ Tied(p, c, d)
    /\ result[p].ids = <<c, d>>

(***************************************************************************)
(* Properties of the two formulations of matches.                          *)
(***************************************************************************)
\* The answer of slot p is one that the handler which sorts by
\* (-len(set intersection), distance) gives for some order of the hits: the
\* same candidates, each placed by those keys.
ClientOrder(p) ==
  /\ Range(result[p].ids) = SingleOthers(pre[p], req[p].id)
  /\ Len(result[p].ids) = Cardinality(SingleOthers(pre[p], req[p].id))
  /\ \A i, j \in 1..Len(result[p].ids) : i < j => RankedBefore(p, i, j)

\* C16: whatever the hobbies list of the requester, entries repeated or
\* not, and whatever the candidates, the answer of the formulation that has
\* the store sort the hits is an answer of the formulation that sorts them
\* in the handler.
C16_NativeOrderIsClientOrder ==
  \A p \in Procs :
    (IsDone(p, "get_matches_native") /\ result[p].status = 200 /\ ~NotSingle(pre[p][req[p].id]))
    => ClientOrder(p)

\* C16 for a requester whose hobbies list has no entry twice.
C16_NativeOrderFromDistinctHobbies ==
  \A p \in Procs :
    ( /\ IsDone(p, "get_matches_native")
      /\ result[p].status = 200
      /\ ~NotSingle(pre[p][req[p].id])
      /\ Cardinality(Range(pre[p][req[p].id].hobbies)) = Len(pre[p][req[p].id].hobbies) )
    => ClientOrder(p)

(***************************************************************************)
(* Properties of requests on different followers.                          *)
(***************************************************************************)
\* The handler of a lone request does what RunAlone says.
RunAloneIsHandler ==
  \A p \in Procs :
    (pc[p] = "done" /\ req[p].op \in {"add_follow", "remove_follow"})
    => /\ result[p] = RunAlone(pre[p], req[p]).result
       /\ post[p] = RunAlone(pre[p], req[p]).index

\* The requests of slots p and q, run on index one after the other, p first,
\* give the responses and leave the index that the two slots have.
AsInSequence(index, p, q) ==
  LET first == RunAlone(index, req[p])
      second == RunAlone(first.index, req[q])
  IN  /\ result[p] = first.result
      /\ result[q] = second.result
      /\ store = second.index

\* C17: two add_follow or remove_follow requests on different followers,
\* their store calls interleaved in any way, give the responses and leave
\* the index that the two give when one runs after the other, in either
\* order.
C17_DifferentFollowersIndependent ==
  \A p, q \in Procs :
    ( /\ p # q
      /\ Started = {p, q}
      /\ pc[p] = "done" /\ pc[q] = "done"
      /\ req[p].id # req[q].id )
    => AsInSequence(store0, p, q) /\ AsInSequence(store0, q, p)

\* C17's case: a follow by one follower and an unfollow by another who is
\* the target of the follow, both inside their handlers before either
\* wrote, and both lists changed.
C17_Witness ==
  \E p, q \in Procs :
    /\ IsDone(p, "add_follow") /\ IsDone(q, "remove_follow")
    /\ req[p].id # req[q].id
    /\ req[p].follow_id = req[q].id
    /\ pre[p] = store0 /\ pre[q] = store0
    /\ store[req[p].id].following # store0[req[p].id].following
    /\ store[req[q].id].following # store0[req[q].id].following

(***************************************************************************)
(* Properties of a failed update.                                          *)
(***************************************************************************)
\* The update of the finished follow or unfollow request of slot p raised
\* error.
UpdateFailed(p, error) ==
  /\ pc[p] = "done"
  /\ req[p].op \in {"add_follow", "remove_follow"}
  /\ Contains(calls[p], error)

\* The store calls of a request whose update raised error and that made no
\* call after it.
CallsToFailure(error) == <<"exists", "exists", "get", error>>

\* The index of slot p's request with the list the request meant to store.
Applied(p) == [pre[p] EXCEPT ![req[p].id].following = local[p].following]

\* C18 as stated: a follow or unfollow request whose update failed or timed
\* out after the read answers with an error and no list, makes no store
\* call after the failed one, and leaves the follower's stored following
\* (and the index) as it was.
C18_FailedUpdateUnchanged ==
  \A p \in Procs, error \in UpdateErrors :
    UpdateFailed(p, error)
    => /\ result[p].status = 500
       /\ result[p].following = <<>>
       /\ calls[p] = CallsToFailure(error)
       /\ post[p] = pre[p]

\* C18 amended: such a request answers with an error and no list and makes
\* no store call after the failed one; the index is as it was when the
\* update did not reach the store, and as it was or with the follower's
\* following as the update carried it when the update timed out.
C18_FailedUpdateReported ==
  \A p \in Procs, error \in UpdateErrors :
    UpdateFailed(p, error)
    => /\ result[p].status = 500
       /\ result[p].following = <<>>
       /\ calls[p] = CallsToFailure(error)
       /\ post[p] \in {pre[p]} \cup IF error = "ConnectionTimeout" THEN {Applied(p)} ELSE {}

\* C18's case: a follow whose update did not reach the store, and a list
\* that the update would have changed.
C18_Witness ==
  \E p \in Procs :
    /\ UpdateFailed(p, "ConnectionError")
    /\ req[p].op = "add_follow"
    /\ Applied(p) # pre[p]
    /\ post[p] = pre[p]
    /\ result[p].status = 500

(***************************************************************************)
(* Properties of what the handlers write.                                  *)
(***************************************************************************)
\* The step is a store call of the handler of slot p.
StoreCallOf(p) == calls'[p] # calls[p]

\* The step leaves every document as it is, or changes only the following
\* of the document id, which is in the index.
OnlyFollowingOf(id) ==
  \A i \in Ids :
    \/ store'[i] = store[i]
    \/ /\ i = id
       /\ store[i].exists
       /\ store'[i] = [store[i] EXCEPT !.following = store'[i].following]

\* C19: whatever create_user and delete_user requests are interleaved with
\* it, a store call of add_follow or remove_follow changes nothing in the
\* index but the following of the follower's own document, a store call of
\* suggestions or matches changes nothing, and none of them puts a profile
\* into the index (a follower deleted during the request is not created
\* again by the update) or takes one out.
C19_Frame ==
  [][\A p \in Procs :
       (StoreCallOf(p) /\ req[p].op \in ReadsAndFollows)
       => /\ \A i \in Ids : store'[i].exists = store[i].exists
          /\ req[p].op \in {"add_follow", "remove_follow"} => OnlyFollowingOf(req[p].id)
          /\ req[p].op \in {"get_user_suggestions", "get_matches"} => store' = store]_vars

\* C19's case: a follow whose follower a delete_user request took out of the
\* index between the read and the update; the follower is still out.
C19_Witness ==
  \E p, q \in Procs :
    /\ IsDone(p, "add_follow")
    /\ calls[p] = <<"exists", "exists", "get", "update">>
    /\ IsDone(q, "delete_user")
    /\ req[q].id = req[p].id
    /\ result[q] = NoContent
    /\ ~store[req[p].id].exists

(***************************************************************************)
(* Properties of the list that follow and unfollow return.                 *)
(***************************************************************************)
\* The entries of following other than id, in their order.
Others(following, id) == LET other(f) == f # id IN SelectSeq(following, other)

\* C20: a follow or unfollow request that answers 200, with no other request
\* writing the follower's document during it, returns the follower's stored
\* following as it is when the request returns; after a follow the list
\* holds the target, after an unfollow it does not, and the other ids of the
\* list as it was before are all there in the order they had.
C20_ReturnedListIsStored ==
  \A p \in Procs :
    ( /\ pc[p] = "done"
      /\ req[p].op \in {"add_follow", "remove_follow"}
      /\ result[p].status = 200 )
    => LET F == req[p].id
           T == req[p].follow_id
       IN  /\ result[p].following = post[p][F].following
           /\ req[p].op = "add_follow" => Contains(result[p].following, T)
           /\ req[p].op = "remove_follow" => ~Contains(result[p].following, T)
           /\ Others(result[p].following, T) = Others(pre[p][F].following, T)

\* C20's case: an unfollow of a target that the list holds twice; both
\* entries are gone from the returned and the stored list.
C20_Witness ==
  \E p \in Procs :
    /\ IsDone(p, "remove_follow")
    /\ result[p].status = 200
    /\ Count(pre[p][req[p].id].following, req[p].follow_id) = 2
    /\ result[p].following = <<>>
    /\ post[p][req[p].id].following = <<>>

(***************************************************************************)
(* Properties of suggestions for a requester who follows nobody.           *)
(***************************************************************************)
\* C21: a suggestions request of a requester whose following is empty
\* answers 200 with the empty list, and the only store calls of its handler
\* are the existence check and the read of the requester's document.
C21_EmptyFollowingNoTraversal ==
  \A p \in Procs :
    ( /\ IsDone(p, "get_user_suggestions")
      /\ pre[p][req[p].id].exists
      /\ pre[p][req[p].id].following = <<>> )
    => /\ result[p].status = 200
       /\ result[p].ids = <<>>
       /\ calls[p] = <<"exists", "get">>

\* C21's case: the requester follows nobody, and another profile of the
\* index follows a third.
C21_Witness ==
  \E p \in Procs, a \in Ids, b \in Ids :
    /\ IsDone(p, "get_user_suggestions")
    /\ Cardinality({req[p].id, a, b}) = 3
    /\ pre[p][req[p].id].exists
    /\ pre[p][req[p].id].following = <<>>
    /\ pre[p][a].exists /\ pre[p][b].exists
    /\ pre[p][a].following = <<b>>
    /\ result[p].ids = <<>>

(***************************************************************************)
(* Properties of suggestions for single profiles.                          *)
(***************************************************************************)
\* C22: a suggestions request for single profiles, of a requester that is
\* in the index with a status other than "single", answers 200 with the
\* empty list, and the only store calls of its handler are the existence
\* check and the read of the requester's document.
C22_SingleGate ==
  \A p \in Procs :
    ( /\ IsDone(p, "get_user_suggestions_single")
      /\ pre[p][req[p].id].exists
      /\ pre[p][req[p].id].status # "single" )
    => /\ result[p].status = 200
       /\ result[p].ids = <<>>
       /\ calls[p] = <<"exists", "get">>

\* C22's case: a married requester who follows a profile that follows a
\* third, single, profile.
C22_Witness ==
  \E p \in Procs, a \in Ids, b \in Ids :
    /\ IsDone(p, "get_user_suggestions_single")
    /\ Cardinality({req[p].id, a, b}) = 3
    /\ pre[p][req[p].id].exists /\ pre[p][req[p].id].status = "married"
    /\ pre[p][req[p].id].following = <<a>>
    /\ pre[p][a].exists /\ Contains(pre[p][a].following, b)
    /\ pre[p][b].exists /\ pre[p][b].status = "single"
    /\ result[p].ids = <<>>

(***************************************************************************)
(* Properties of create_user and update_user.                              *)
(***************************************************************************)
\* C23: a create_user request with an id that is in the index responds 400
\* "User with this ID already exists", makes no store write and leaves the
\* profile of that id (and the index) as it was.
C23_CreateExistingRejected ==
  \A p \in Procs :
    (IsDone(p, "create_user") /\ pre[p][req[p].id].exists)
    => /\ result[p].status = 400
       /\ result[p].detail = "User with this ID already exists"
       /\ NoWrite(p)
       /\ post[p] = pre[p]

\* C23's case: the request carries another following than the stored one.
C23_Witness ==
  \E p \in Procs :
    /\ IsDone(p, "create_user")
    /\ pre[p][req[p].id].exists
    /\ req[p].following # pre[p][req[p].id].following
    /\ result[p].status = 400
    /\ store[req[p].id] = pre[p][req[p].id]

\* C24: a create_user request with an id that is not in the index and valid
\* fields stores the profile under that id and responds 200 with the fields
\* it was given.
C24_CreateSucceeds ==
  \A p \in Procs :
    (IsDone(p, "create_user") /\ ~pre[p][req[p].id].exists)
    => /\ result[p].status = 200
       /\ result[p].following = req[p].following
       /\ post[p][req[p].id] = CreateBody(req[p].following, req[p].status)

\* C24 without the response: the profile is stored as given, and no other
\* profile is touched.
C24_CreateStores ==
  \A p \in Procs :
    (IsDone(p, "create_user") /\ ~pre[p][req[p].id].exists)
    => post[p] = [pre[p] EXCEPT ![req[p].id] = CreateBody(req[p].following, req[p].status)]

\* C25: an update_user request for an id that is in the index, with no
\* field set, responds 400 "No fields provided for update", makes no store
\* write and leaves the profile as it was.
C25_NoFieldsRejected ==
  \A p \in Procs :
    (IsDone(p, "update_user") /\ pre[p][req[p].id].exists /\ UpdateDocEmpty(req[p]))
    => /\ result[p].status = 400
       /\ result[p].detail = "No fields provided for update"
       /\ NoWrite(p)
       /\ post[p] = pre[p]

\* C25 without the status: the test of the empty update is the one that
\* fires, and nothing is written.
C25_NoFieldsNoWrite ==
  \A p \in Procs :
    (IsDone(p, "update_user") /\ pre[p][req[p].id].exists /\ UpdateDocEmpty(req[p]))
    => /\ result[p].detail = "No fields provided for update"
       /\ NoWrite(p)
       /\ post[p] = pre[p]

(***************************************************************************)
(* Properties of calculate_distance.                                       *)
(***************************************************************************)
\* The position of a document as get_matches reads it.
PositionOf(doc) == <<GetX(doc), GetY(doc)>>

\* The distances that the finished matches request of slot p computed to
\* profile id.
DistancesTo(p, id) ==
  {local[p].matches[k].distance : k \in {l \in 1..Len(local[p].matches) :
                                          local[p].matches[l].id = id}}

\* C26: the distance that a matches request of P computes to Q is the one
\* that a matches request of Q computes to P, and the distance computed to
\* a profile at the requester's own position is 0.
C26_DistanceSymmetric ==
  \A p, q \in Procs :
    (IsDone(p, "get_matches") /\ IsDone(q, "get_matches"))
    => /\ \A d \in DistancesTo(p, req[q].id), e \in DistancesTo(q, req[p].id) : d = e
       /\ \A c \in Ids :
            PositionOf(store[c]) = PositionOf(store[req[p].id]) => DistancesTo(p, c) \subseteq {0}

\* C26's case: two profiles at positions that differ in x and in y, and a
\* matches request of each that computed the distance to the other.
C26_Witness ==
  \E p, q \in Procs :
    /\ IsDone(p, "get_matches") /\ IsDone(q, "get_matches")
    /\ req[p].id # req[q].id
    /\ GetX(store[req[p].id]) # GetX(store[req[q].id])
    /\ GetY(store[req[p].id]) # GetY(store[req[q].id])
    /\ DistancesTo(p, req[q].id) # {}
    /\ DistancesTo(q, req[p].id) = DistancesTo(p, req[q].id)
    /\ 0 \notin DistancesTo(p, req[q].id)

(***************************************************************************)
(* Properties of the updates that follow and unfollow make.                *)
(***************************************************************************)
\* C27: a follow request whose target is in the follower's following as
\* the handler reads it makes no update call, and answers 200 with the
\* list as read.
C27_AlreadyFollowedNoUpdate ==
  \A p \in Procs :
    ( /\ IsDone(p, "add_follow")
      /\ pre[p][req[p].id].exists
      /\ pre[p][req[p].follow_id].exists
      /\ Contains(pre[p][req[p].id].following, req[p].follow_id)
      /\ req[p].id # req[p].follow_id )
    => /\ result[p].status = 200
       /\ result[p].following = pre[p][req[p].id].following
       /\ calls[p] = <<"exists", "exists", "get">>
       /\ post[p] = pre[p]

\* C27's case: the target is the second of two followed profiles.
C27_Witness ==
  \E p \in Procs :
    /\ IsDone(p, "add_follow")
    /\ Len(pre[p][req[p].id].following) = 2
    /\ pre[p][req[p].id].following[1] # req[p].follow_id
    /\ pre[p][req[p].id].following[2] = req[p].follow_id
    /\ req[p].id # req[p].follow_id
    /\ result[p].status = 200
    /\ calls[p] = <<"exists", "exists", "get">>

\* The number of the calls named call among calls.
CallCount(cs, call) == Cardinality({i \in 1..Len(cs) : cs[i] = call})

\* C28: an unfollow request whose two existence checks and read succeeded
\* makes exactly one update call, whether the target was in the list or
\* not; the call is made before the request returns, and it stores the
\* list that the request returns.
C28_RemoveFollowUpdatesOnce ==
  \A p \in Procs :
    ( /\ IsDone(p, "remove_follow")
      /\ pre[p][req[p].id].exists
      /\ pre[p][req[p].follow_id].exists )
    => /\ result[p].status = 200
       /\ calls[p] = <<"exists", "exists", "get", "update">>
       /\ CallCount(calls[p], "update") = 1
       /\ post[p][req[p].id].following = result[p].following

\* No unfollow request is past its read without having answered or being
\* about to make its update: the update is not skipped or made twice.
C28_UpdateBeforeReturn ==
  \A p \in Procs :
    (req[p].op = "remove_follow" /\ Len(calls[p]) >= 3 /\ pre[p][req[p].id].exists
       /\ pre[p][req[p].follow_id].exists)
    => \/ pc[p] = "rf_update" /\ calls[p] = <<"exists", "exists", "get">>
       \/ pc[p] = "done" /\ calls[p] = <<"exists", "exists", "get", "update">>

\* C28's case: an unfollow of a profile that is not followed, which still
\* made its update.
C28_Witness ==
  \E p \in Procs :
    /\ IsDone(p, "remove_follow")
    /\ pre[p][req[p].id].exists
    /\ pre[p][req[p].follow_id].exists
    /\ ~Contains(pre[p][req[p].id].following, req[p].follow_id)
    /\ Len(pre[p][req[p].id].following) > 0
    /\ calls[p] = <<"exists", "exists", "get", "update">>

(***************************************************************************)
(* Properties of the suggestions list.                                     *)
(***************************************************************************)
\* C29: the list that a suggestions request returns holds no profile twice,
\* also when several of the profiles the requester follows follow the
\* candidate, or one of their lists holds it more than once.
C29_SuggestionsNoRepeat ==
  \A p \in Procs :
    (IsDone(p, "get_user_suggestions") /\ result[p].status = 200)
    => \A c \in Ids : Count(result[p].ids, c) <= 1

\* C29's case: the requester's list holds a twice and a's list holds c
\* twice, four ways to c; the answer is c once.
C29_Witness ==
  \E p \in Procs, a \in Ids, c \in Ids :
    /\ IsDone(p, "get_user_suggestions")
    /\ Cardinality({req[p].id, a, c}) = 3
    /\ pre[p][req[p].id].following = <<a, a>>
    /\ pre[p][a].exists
    /\ pre[p][a].following = <<c, c>>
    /\ result[p].ids = <<c>>

\* C30: every profile in the answer to a suggestions request for single
\* profiles was in the index with the status "single" when the handler
\* fetched it, and so was the requester when the handler read it; with a
\* single requester the answer is the single profiles among the second-
\* degree candidates, so that a married candidate is never in it.
C30_OnlySingleSuggested ==
  \A p \in Procs :
    (IsDone(p, "get_user_suggestions_single") /\ result[p].status = 200)
    => LET U == req[p].id
           F == Range(pre[p][U].following)
       IN  /\ \A c \in Range(result[p].ids) :
                /\ pre[p][c].exists /\ pre[p][c].status = "single"
                /\ pre[p][U].status = "single"
           /\ pre[p][U].status = "single"
              => Range(result[p].ids) =
                   {c \in SecondDegree(pre[p], U) \ ({U} \cup F) :
                      pre[p][c].exists /\ pre[p][c].status = "single"}

\* C30's case: a single requester follows a, a follows the married c; the
\* handler fetched c and the answer is empty.
C30_Witness ==
  \E p \in Procs, a \in Ids, c \in Ids :
    /\ IsDone(p, "get_user_suggestions_single")
    /\ Cardinality({req[p].id, a, c}) = 3
    /\ pre[p][req[p].id].exists /\ pre[p][req[p].id].status = "single"
    /\ pre[p][req[p].id].following = <<a>>
    /\ pre[p][a].exists /\ Contains(pre[p][a].following, c)
    /\ pre[p][c].exists /\ pre[p][c].status = "married"
    /\ calls[p] = <<"exists", "get", "exists", "get", "exists", "get">>
    /\ result[p].ids = <<>>

(***************************************************************************)
(* C31: in Matches, a profile whose document lacks a position coordinate   *)
(* is located at (0, 0): both coordinates its distance is computed from    *)
(* are 0, and so are those of the location a candidate is returned with,   *)
(* so that the position ranked by and the position reported agree.         *)
(***************************************************************************)
LacksCoordinate(doc) == ~doc.hasX \/ ~doc.hasY

C31_MissingCoordinateAtOrigin ==
  \A p \in Procs :
    IsDone(p, "get_matches") /\ result[p].status = 200 /\ Contains(calls[p], "search") =>
      /\ LacksCoordinate(local[p].user_doc) => LocationOf(local[p].user_doc) = <<0, 0>>
      /\ \A k \in 1..Len(local[p].matches) :
           LET match == local[p].matches[k]
           IN  /\ LacksCoordinate(store[match.id]) =>
                    match.match_location = <<0, 0>> /\ match.location = <<0, 0>>
               /\ match.match_location = match.location

\* What does hold: a candidate whose document has neither coordinate is
\* ranked from (0, 0) and reported at (0, 0).
C31_NoCoordinateAtOrigin ==
  \A p \in Procs :
    IsDone(p, "get_matches") /\ result[p].status = 200 =>
      \A k \in 1..Len(local[p].matches) :
        LET match == local[p].matches[k]
        IN  ~store[match.id].hasX /\ ~store[match.id].hasY =>
              match.match_location = <<0, 0>> /\ match.location = <<0, 0>>

(***************************************************************************)
(* C32: an add_follow(F, T1) and a remove_follow(F, T2) on the same        *)
(* follower F with T1 # T2, their store calls interleaved in any way,      *)
(* leave F's stored following as the two requests leave it when one runs   *)
(* after the other, in one of the two orders.                              *)
(***************************************************************************)
\* The following of F after the request of slot p and then that of slot q
\* have run on index, one after the other.
FollowingInSequence(index, p, q, F) ==
  RunAlone(RunAlone(index, req[p]).index, req[q]).index[F].following

C32_SameFollowerLinearizable ==
  \A p, q \in Procs :
    ( /\ Started = {p, q}
      /\ IsDone(p, "add_follow") /\ IsDone(q, "remove_follow")
      /\ req[p].id = req[q].id
      /\ req[p].follow_id # req[q].follow_id )
    => store[req[p].id].following \in
         {FollowingInSequence(store0, p, q, req[p].id),
          FollowingInSequence(store0, q, p, req[p].id)}

(***************************************************************************)
(* C33: of two create_user requests for the same id that is not in the     *)
(* index, with different profile data and their store calls interleaved in *)
(* any way, at most one responds 200; when both have finished the profile  *)
(* stored under the id is the data of the request that responded 200, and  *)
(* a request that responded with an error has not changed the store.       *)
(***************************************************************************)
CreateOps == {"create_user", "main_create_user"}

\* Slots p and q hold two finished create requests of one layout for the
\* same unused id, with different data.
CreatedTwice(p, q) ==
  /\ p # q
  /\ Started = {p, q}
  /\ pc[p] = "done" /\ pc[q] = "done"
  /\ req[p].op \in CreateOps /\ req[q].op = req[p].op
  /\ req[p].id = req[q].id
  /\ ~store0[req[p].id].exists
  /\ req[p].following # req[q].following

C33_ConcurrentCreate ==
  \A p, q \in Procs :
    CreatedTwice(p, q) =>
      /\ ~(result[p].status = 200 /\ result[q].status = 200)
      /\ result[p].status = 200 =>
           store[req[p].id] = CreateBody(req[p].following, req[p].status)
      /\ (result[p].status # 200 /\ result[q].status # 200) => store = store0

\* What does hold: at most one of the two requests responds 200.
C33_AtMostOneSucceeds ==
  \A p, q \in Procs :
    CreatedTwice(p, q) => ~(result[p].status = 200 /\ result[q].status = 200)

(***************************************************************************)
(* C34: an update_user request that sets no following (here: the status)  *)
(* of profile F and an add_follow(F, T), their store calls interleaved in  *)
(* any way, both take effect: once both have responded 200 the stored      *)
(* profile has the status of the update and a following that contains T.   *)
(***************************************************************************)
\* Slot p holds an update of F's status and slot q an add_follow on F, both
\* answered 200.
PatchedAndFollowed(p, q) ==
  /\ Started = {p, q}
  /\ IsDone(p, "update_user") /\ ~req[p].hasFollowing /\ req[p].hasStatus
  /\ IsDone(q, "add_follow")
  /\ req[p].id = req[q].id
  /\ result[p].status = 200 /\ result[q].status = 200

C34_PatchAndFollowBothApply ==
  \A p, q \in Procs :
    PatchedAndFollowed(p, q) =>
      /\ store[req[p].id].status = req[p].status
      /\ Contains(store[req[p].id].following, req[q].follow_id)

\* The two requests overlapped (each entered its handler before the other
\* wrote), the status changed and T was added.
C34_Witness ==
  \E p, q \in Procs :
    /\ PatchedAndFollowed(p, q)
    /\ pre[p] = store0 /\ pre[q] = store0
    /\ store0[req[p].id].status # req[p].status
    /\ ~Contains(store0[req[p].id].following, req[q].follow_id)
    /\ store[req[p].id].status = req[p].status
    /\ Contains(store[req[p].id].following, req[q].follow_id)

(***************************************************************************)
(* C35: delete_user(X) for an X in the index responds 204, takes X out of  *)
(* the index and changes no other document: every other profile, each      *)
(* following list that holds X included, stays as it was.  A suggestions   *)
(* or get_following request made afterwards for a profile in the index     *)
(* responds 200 and does not return X.                                     *)
(***************************************************************************)
\* Slot p holds a finished delete_user for an id that was in the index.
Deleted(p) == IsDone(p, "delete_user") /\ pre[p][req[p].id].exists

\* Slot q holds a finished suggestions or get_following request, made after
\* the delete of slot p responded, for a profile that is in the index.
ReadAfterDelete(p, q) ==
  /\ Deleted(p)
  /\ pc[q] = "done" /\ req[q].op \in {"get_user_suggestions", "get_following"}
  /\ Started = {p, q}
  /\ pre[q][req[q].id].exists

C35_DeleteFrame ==
  /\ \A p \in Procs :
       Deleted(p) =>
         /\ result[p] = NoContent
         /\ post[p] = [pre[p] EXCEPT ![req[p].id] = NoDoc]
  /\ \A p, q \in Procs :
       ReadAfterDelete(p, q) =>
         /\ result[q].status = 200
         /\ ~Contains(result[q].ids, req[p].id)

\* X was deleted while the requester of a later get_following followed X
\* and a profile that is still there: the list has X, the answer has the
\* other profile only.
C35_Witness ==
  \E p, q \in Procs :
    /\ ReadAfterDelete(p, q)
    /\ req[q].op = "get_following"
    /\ Contains(store[req[q].id].following, req[p].id)
    /\ result[q].status = 200
    /\ Len(result[q].ids) = 1
    /\ ~Contains(result[q].ids, req[p].id)

\* The same for suggestions, in the first loop: the requester follows X.
C35_WitnessFollowedGone ==
  \E p, q \in Procs :
    /\ ReadAfterDelete(p, q)
    /\ req[q].op = "get_user_suggestions"
    /\ Contains(store[req[q].id].following, req[p].id)
    /\ result[q].status = 200

\* And in the second loop: the requester does not follow X but follows a
\* profile that does, so that X is a candidate.
C35_WitnessCandidateGone ==
  \E p, q \in Procs :
    /\ ReadAfterDelete(p, q)
    /\ req[q].op = "get_user_suggestions"
    /\ ~Contains(store[req[q].id].following, req[p].id)
    /\ req[p].id \in local[q].suggested_ids
    /\ result[q].status = 200
    /\ ~Contains(result[q].ids, req[p].id)

(***************************************************************************)
(* C36: in every state of the index and for all profiles A and B in it, A  *)
(* is in the answer of get_followers(B) if and only if B is in the answer  *)
(* of get_following(A), if and only if B is in A's stored following; so    *)
(* after an add_follow(A, B) that responded 200 both hold, and after a     *)
(* remove_follow(A, B) that responded 200 neither does.                    *)
(***************************************************************************)
\* The answer of the get_followers(B) of slot p names the profiles whose
\* stored following holds B.
FollowersAreStored(p) ==
  \A A \in Ids :
    post[p][A].exists =>
      (Contains(result[p].ids, A) <=> Contains(post[p][A].following, req[p].id))

\* The answer of the get_following(A) of slot p names the profiles of the
\* index that A's stored following holds.
FollowingIsStored(p) ==
  \A B \in Ids :
    post[p][B].exists =>
      (Contains(result[p].ids, B) <=> Contains(post[p][req[p].id].following, B))

C36_FollowersConsistent ==
  \A p \in Procs :
    /\ (IsDone(p, "get_followers") /\ result[p].status = 200) => FollowersAreStored(p)
    /\ (IsDone(p, "get_following") /\ result[p].status = 200) => FollowingIsStored(p)

\* The half of C36 that reads documents by id holds.
C36_FollowingConsistent ==
  \A p \in Procs :
    (IsDone(p, "get_following") /\ result[p].status = 200) => FollowingIsStored(p)

\* The half that searches holds when the search saw the index as it is.
C36_FollowersConsistentWhenFresh ==
  \A p \in Procs :
    (IsDone(p, "get_followers") /\ result[p].status = 200 /\ local[p].fresh)
    => FollowersAreStored(p)

(***************************************************************************)
(* C37: add_follow checks that the follower is in the index, then that the *)
(* target is, then that the two differ: add_follow(F, F) for an F that is  *)
(* not in the index responds 404 and not 400, and add_follow with neither  *)
(* id in the index responds 404 "User not found", the follower's error.    *)
(***************************************************************************)
\* Slot p holds a finished add_follow whose follower is not in the index
\* and whose target is the follower itself or not in the index either.
FollowerAndTargetFail(p) ==
  /\ IsDone(p, "add_follow")
  /\ ~pre[p][req[p].id].exists
  /\ req[p].follow_id = req[p].id \/ ~pre[p][req[p].follow_id].exists

C37_CheckPrecedence ==
  \A p \in Procs :
    FollowerAndTargetFail(p) =>
      /\ result[p].status = 404
      /\ result[p].detail = "User not found"
      /\ calls[p] = <<"exists">>

\* C37 without the status: the follower's check is the one that fires, after
\* one store call.
C37_FollowerCheckedFirst ==
  \A p \in Procs :
    FollowerAndTargetFail(p) =>
      /\ result[p].detail = "User not found"
      /\ calls[p] = <<"exists">>

====
